---- MODULE Spec2Model ----
(***************************************************************************)
(* LoopBack help desk front end: the User Portal chat (UserPortal), the    *)
(* Admin Dashboard (App) and the knowledge-base viewer (DatabaseViewer),   *)
(* together with the REST backend they talk to.  The backend (server.py)   *)
(* is not part of the sources; its effect on the stores is modelled from   *)
(* the interface description.                                              *)
(***************************************************************************)
EXTENDS Integers, Sequences, FiniteSets, TLC

\* ------------------------------------------------------------------ bounds
\* requests that may be outstanding on the network at once
MaxInflight == 1
\* messages the user sends in one chat session
MaxSends == 2
\* questions the operators send to the user of one ticket
MaxAsks == 2

\* ------------------------------------------------------------------ values
Null == "<null>"

TicketIds == <<"TKT-1001", "TKT-1002">>

\* what the user may have typed in the chat box
InputTexts == {"", " ", "vpn down", " vpn down ", "still broken"}

\* String.prototype.trim over the texts of the model
Trim(s) ==
  CASE s = " " -> ""
    [] s = " vpn down " -> "vpn down"
    [] s = "  " -> ""
    [] OTHER -> s

\* bodies POST /chat/analyze may answer with: summary may be missing (Null),
\* empty, a proper summary, or a repetition of what the user wrote
Replies == {"try a reboot"}
Summaries == {Null, "", "VPN connectivity failure", "vpn down"}
AnalyzeResponses ==
  [response : Replies, escalation_required : BOOLEAN, summary : Summaries]

NoAnalysis == [response |-> "", escalation_required |-> FALSE, summary |-> Null]

Greeting == "Hi! I'm your IT Assistant. How can I help you today?"
Trouble == "I'm having trouble connecting. You can try asking again."

AutoTicketNotice(id) ==
  CASE id = "TKT-1001" ->
         "[System] Ticket TKT-1001 has been created automatically based on our conversation. An agent will review it shortly."
    [] OTHER ->
         "[System] Ticket TKT-1002 has been created automatically based on our conversation. An agent will review it shortly."

VARIABLES
  \* UserPortal
  input, messages, loading, ticketCreated,
  \* network: requests issued and not yet answered to their caller
  net,
  \* backend: the ticket store, and what the classifier assigns to each ticket
  store, catalog,
  \* handleSend: the answer (res.data) of the analysis it last received, and
  \* how many messages it has accepted
  analysis, sends,
  \* App (Admin Dashboard)
  tickets, confirmDelete, categoryFilter, subcategoryFilter, showBroadcastAll,
  broadcastAllText, notification, confirmPopup, selectedTicketIds,
  isConfirmingBroadcastAll, showAskModal, askQuestionText,
  \* DatabaseViewer, the knowledge-base store of the backend, and the
  \* window.alert and window.confirm dialogs
  data, showModal, editingEntry, formData, kb, alertBox, confirmBox,
  \* which view App renders
  viewMode, showDatabase,
  \* the setInterval timers that are running: those of the ticket polling
  \* effect of App and those of the polling effect of DatabaseViewer
  ticketIntervals, dataIntervals

chatVars == <<input, messages, loading, ticketCreated>>
obsVars == <<analysis, sends>>
serverVars == <<store, catalog>>
portalVars == <<input, messages, loading, ticketCreated, analysis, sends>>
filterVars == <<categoryFilter, subcategoryFilter>>
batchVars == <<showBroadcastAll, broadcastAllText, isConfirmingBroadcastAll>>
askVars == <<showAskModal, askQuestionText>>
adminVars == <<tickets, confirmDelete, categoryFilter, subcategoryFilter,
               showBroadcastAll, broadcastAllText, notification, confirmPopup,
               selectedTicketIds, isConfirmingBroadcastAll, showAskModal,
               askQuestionText>>
viewerVars == <<data, showModal, editingEntry, formData>>
kbVars == <<data, showModal, editingEntry, formData, kb, alertBox, confirmBox>>
navVars == <<viewMode, showDatabase, ticketIntervals, dataIntervals>>
\* what the handlers of one component leave alone
notPortal == <<adminVars, kbVars, navVars>>
notAdmin == <<portalVars, kbVars, navVars>>
notViewer == <<portalVars, adminVars, serverVars, navVars>>
vars == <<input, messages, loading, ticketCreated, net, store, catalog,
          analysis, sends, tickets, confirmDelete, categoryFilter,
          subcategoryFilter, showBroadcastAll, broadcastAllText, notification,
          confirmPopup, selectedTicketIds, isConfirmingBroadcastAll,
          showAskModal, askQuestionText, data, showModal, editingEntry,
          formData, kb, alertBox, confirmBox, viewMode, showDatabase,
          ticketIntervals, dataIntervals>>

\* ------------------------------------------------------------------ helpers
Range(s) == {s[i] : i \in 1..Len(s)}

RemoveAt(s, i) == SubSeq(s, 1, i - 1) \o SubSeq(s, i + 1, Len(s))

\* Array.prototype.includes
Includes(arr, x) == \E k \in 1..Len(arr) : arr[k] = x

\* JavaScript truthiness of a string-or-missing value
Truthy(v) == v # Null /\ v # ""

\* a request that awaits its answer: the endpoint, the id in its path, its
\* body, and what the awaiting code holds on to (ctx).  A GET is answered in
\* two steps, the backend reading its store (stage "ok", the body in data)
\* and the caller receiving that; the other requests take effect on the
\* backend in the step that hands their answer to the caller.
Req(op, id, body, ctx) ==
  [op |-> op, id |-> id, body |-> body, ctx |-> ctx, stage |-> "sent", data |-> <<>>]

\* ------------------------------------------------------------------ backend
\* (server.py is not in the sources: modelled from the interface description)
Statuses == {"Pending", "Awaiting Info", "Resolved"}
NoTicket == [status |-> "None", query |-> "", history |-> <<>>]

Ids == Range(TicketIds)

\* index of an id in the order ids are handed out
IdIndex(id) == CHOOSE i \in 1..Len(TicketIds) : TicketIds[i] = id

\* the ticket the backend creates next: ids are sequential and never reused
FreeIds == {id \in Ids : \A j \in IdIndex(id)..Len(TicketIds) :
                            store[TicketIds[j]].status = "None"}
NextId == CHOOSE id \in FreeIds : \A o \in FreeIds : IdIndex(id) <= IdIndex(o)

\* the history the backend keeps of a transcript it is handed: {role, message}
\* entries in the order of the transcript
StoredHistory(transcript) ==
  [k \in 1..Len(transcript) |->
     [role |-> transcript[k].role, message |-> transcript[k].content]]

\* POST /tickets: the store with a new Pending ticket
TicketCreated(query, transcript) ==
  [store EXCEPT ![NextId] = [status |-> "Pending", query |-> query,
                             history |-> StoredHistory(transcript)]]

Listed(id) == store[id].status \in Statuses

\* POST /broadcast_all (and /broadcast): every listed ticket named is Resolved
TicketsResolved(ids) ==
  [id \in Ids |-> IF Includes(ids, id) /\ Listed(id)
                  THEN [store[id] EXCEPT !.status = "Resolved"] ELSE store[id]]

\* POST /tickets/{id}/ask: the ticket awaits the user's answer, the question
\* is the last entry of its history
TicketAsked(id, question) ==
  [store EXCEPT ![id].status = "Awaiting Info",
                ![id].history = Append(@, [role |-> "admin", message |-> question])]

\* the questions the operators have put to the user of a ticket
Asks(id) == Len(SelectSeq(store[id].history, LAMBDA h : h.role = "admin"))

\* DELETE /tickets/{id}: the id is gone for good
TicketDeleted(id) == [store EXCEPT ![id].status = "Deleted"]

IsOpenStatus(status) == status \in {"Pending", "Awaiting Info"}

\* ------------------------------------------------------------------ App state
\* the null values of the object-valued state
NoConfirmDelete == [ticketId |-> Null, ticketQuery |-> Null]
NoNotification == [message |-> Null, type |-> Null]
NoConfirmPopup == [ticketId |-> Null, finalAnswer |-> Null]
NoAskTicket ==
  [id |-> Null, status |-> Null, category |-> Null, subcategory |-> Null,
   group_id |-> Null, query |-> Null, history |-> <<>>]

InitApp ==
  /\ tickets = <<>>
  /\ confirmDelete = NoConfirmDelete
  /\ categoryFilter = "All"
  /\ subcategoryFilter = "All"
  /\ showBroadcastAll = FALSE
  /\ broadcastAllText = ""
  /\ notification = NoNotification
  /\ confirmPopup = NoConfirmPopup
  /\ selectedTicketIds = <<>>
  /\ isConfirmingBroadcastAll = FALSE
  /\ showAskModal = NoAskTicket
  /\ askQuestionText = ""

\* showNotification (the toast is cleared again by its 4 s timer)
Notify(message, type) == notification' = [message |-> message, type |-> type]

\* the category tabs of the dashboard: All, one that tickets have and two of
\* the five that none has
CategoryTabs == {"All", "Network", "Hardware", "Others"}

\* what the operator may type into a draft, the broadcast box or the question box
DraftTexts == {"", "restart the router"}
SolutionTexts == {"", " ", "restart the router"}
SuggestedQuestion == "Could you please provide more details about this issue?"
QuestionTexts == {"", SuggestedQuestion}

IsEscalatedIgnoringSubcategory(t) ==
  /\ ~(t.status # "Pending" /\ t.status # "Awaiting Info")
  /\ ~(categoryFilter # "All" /\ t.category # categoryFilter)

\* escalatedTickets: the queue shown
IsEscalated(t) ==
  /\ ~(t.status # "Pending" /\ t.status # "Awaiting Info")
  /\ ~(categoryFilter # "All" /\ t.category # categoryFilter)
  /\ ~(subcategoryFilter # "All" /\ t.subcategory # subcategoryFilter)

escalatedTickets == SelectSeq(tickets, IsEscalated)

\* what a card computes of the similarity group of its ticket
groupedTickets(ticket) ==
  SelectSeq(tickets, LAMBDA t : t.group_id = ticket.group_id /\ t.status = "Pending")

isGrouped(ticket) == Len(groupedTickets(ticket)) > 1

otherCount(ticket) == Len(groupedTickets(ticket)) - 1

\* tickets.map(t => t.id)
IdsOf(ts) == [k \in 1..Len(ts) |-> ts[k].id]

\* activeSubcategories: 'All' and the distinct truthy subcategories of the
\* open tickets of the selected category, in order of first appearance
IsFirstOfItsSubcategory(ts, k) == \A j \in 1..(k - 1) : ts[j].subcategory # ts[k].subcategory

activeSubcategoriesOfAnyCategory ==
  LET open == SelectSeq(tickets, LAMBDA t :
                 /\ (t.status = "Pending" \/ t.status = "Awaiting Info")
                 /\ Truthy(t.subcategory))
      firsts == {k \in 1..Len(open) : IsFirstOfItsSubcategory(open, k)}
      nth(n) == CHOOSE k \in firsts : Cardinality({j \in firsts : j <= k}) = n
  IN  <<"All">> \o [n \in 1..Cardinality(firsts) |-> open[nth(n)].subcategory]

activeSubcategories ==
  LET open == SelectSeq(tickets, LAMBDA t :
                 /\ t.category = categoryFilter
                 /\ (t.status = "Pending" \/ t.status = "Awaiting Info")
                 /\ Truthy(t.subcategory))
      firsts == {k \in 1..Len(open) : IsFirstOfItsSubcategory(open, k)}
      nth(n) == CHOOSE k \in firsts : Cardinality({j \in firsts : j <= k}) = n
  IN  <<"All">> \o [n \in 1..Cardinality(firsts) |-> open[nth(n)].subcategory]

\* window.alert and window.confirm stop the page until they are answered
PageRuns == alertBox = Null /\ confirmBox = Null

\* the dashboard is rendered and no overlay covers it, so its own buttons can
\* be clicked
PageClickable ==
  /\ viewMode = "admin"
  /\ ~showDatabase
  /\ PageRuns
  /\ confirmPopup = NoConfirmPopup
  /\ confirmDelete = NoConfirmDelete
  /\ ~showBroadcastAll
  /\ showAskModal = NoAskTicket

\* -------------------------------------------------- fetching
\* fetchTickets up to its await; `then` names what awaits it
FetchRequest(then, ticketId) ==
  Req("GET /tickets", Null, Null, [then |-> then, ticketId |-> ticketId])

\* Refresh
RefreshClick ==
  /\ PageClickable
  /\ Len(net) < MaxInflight
  /\ net' = Append(net, FetchRequest("fetchTickets", Null))
  /\ UNCHANGED <<adminVars, serverVars>>
  /\ UNCHANGED notAdmin

\* a polling interval of App fires
PollTickets ==
  /\ ticketIntervals > 0
  /\ PageRuns
  /\ Len(net) < MaxInflight
  /\ net' = Append(net, FetchRequest("fetchTickets", Null))
  /\ UNCHANGED <<adminVars, serverVars>>
  /\ UNCHANGED notAdmin

FetchTicketsDoneMerging(i) ==
  /\ PageRuns
  /\ net[i].op = "GET /tickets"
  /\ net[i].ctx.then = "fetchTickets"
  /\ net[i].stage = "ok"
  /\ tickets' = tickets \o net[i].data
  /\ net' = RemoveAt(net, i)
  /\ UNCHANGED <<confirmDelete, filterVars, batchVars, notification, confirmPopup,
                 selectedTicketIds, askVars, serverVars>>
  /\ UNCHANGED notAdmin

FetchTicketsDonePrunesSelection(i) ==
  /\ PageRuns
  /\ net[i].op = "GET /tickets"
  /\ net[i].ctx.then = "fetchTickets"
  /\ net[i].stage = "ok"
  /\ tickets' = net[i].data
  /\ selectedTicketIds' =
       SelectSeq(selectedTicketIds, LAMBDA id : Includes(IdsOf(net[i].data), id))
  /\ subcategoryFilter' = "All"
  /\ net' = RemoveAt(net, i)
  /\ UNCHANGED <<confirmDelete, categoryFilter, batchVars, notification, confirmPopup,
                 askVars, serverVars>>
  /\ UNCHANGED notAdmin

\* fetchTickets after the GET answered
FetchTicketsDone(i) ==
  /\ PageRuns
  /\ net[i].op = "GET /tickets"
  /\ net[i].ctx.then = "fetchTickets"
  /\ net[i].stage = "ok"
  /\ tickets' = net[i].data
  /\ net' = RemoveAt(net, i)
  /\ UNCHANGED <<confirmDelete, filterVars, batchVars, notification, confirmPopup,
                 selectedTicketIds, askVars, serverVars>>
  /\ UNCHANGED notAdmin

\* fetchTickets' catch: console.error only
FetchTicketsFailed(i) ==
  /\ PageRuns
  /\ net[i].op = "GET /tickets"
  /\ net[i].ctx.then = "fetchTickets"
  /\ net' = RemoveAt(net, i)
  /\ UNCHANGED <<adminVars, serverVars>>
  /\ UNCHANGED notAdmin

\* -------------------------------------------------- broadcast one
ApproveResolutionUnchecked(ticketId, finalAnswer) ==
  /\ PageClickable
  /\ Includes(IdsOf(escalatedTickets), ticketId)
  /\ confirmPopup' = [ticketId |-> ticketId, finalAnswer |-> finalAnswer]
  /\ UNCHANGED <<tickets, confirmDelete, filterVars, batchVars, selectedTicketIds,
                 askVars, net, serverVars, notification>>
  /\ UNCHANGED notAdmin

\* approveResolution: Broadcast Reply on a card, with the draft in its textarea
ApproveResolution(ticketId, finalAnswer) ==
  /\ PageClickable
  /\ Includes(IdsOf(escalatedTickets), ticketId)
  /\ IF ~Truthy(finalAnswer)
     THEN /\ Notify("Please enter a solution", "error")
          /\ UNCHANGED confirmPopup
     ELSE /\ confirmPopup' = [ticketId |-> ticketId, finalAnswer |-> finalAnswer]
          /\ UNCHANGED notification
  /\ UNCHANGED <<tickets, confirmDelete, filterVars, batchVars, selectedTicketIds,
                 askVars, net, serverVars>>
  /\ UNCHANGED notAdmin

\* Confirm in the confirmation popup: onConfirm up to its await
ConfirmPopupConfirm ==
  /\ confirmPopup # NoConfirmPopup
  /\ Len(net) < MaxInflight
  /\ net' = Append(net, Req("POST /broadcast", confirmPopup.ticketId,
                            [ticket_id |-> confirmPopup.ticketId,
                             final_answer |-> confirmPopup.finalAnswer], Null))
  /\ UNCHANGED <<adminVars, serverVars>>
  /\ UNCHANGED notAdmin

\* Cancel, or a click on the overlay of the confirmation popup
ConfirmPopupDismiss ==
  /\ confirmPopup # NoConfirmPopup
  /\ confirmPopup' = NoConfirmPopup
  /\ UNCHANGED <<tickets, confirmDelete, filterVars, batchVars, notification,
                 selectedTicketIds, askVars, net, serverVars>>
  /\ UNCHANGED notAdmin

\* onConfirm after POST /broadcast answered
BroadcastDone(i) ==
  /\ net[i].op = "POST /broadcast"
  /\ Listed(net[i].id)
  /\ store' = TicketsResolved(<<net[i].id>>)
  /\ Notify("Solution broadcasted successfully!", "success")
  /\ net' = Append(RemoveAt(net, i), FetchRequest("fetchTickets", Null))
  /\ confirmPopup' = NoConfirmPopup
  /\ UNCHANGED <<tickets, confirmDelete, filterVars, batchVars, selectedTicketIds,
                 askVars, catalog>>
  /\ UNCHANGED notAdmin

\* onConfirm's catch (lost: the backend did its part, the answer went missing)
BroadcastFailed(i, lost) ==
  /\ net[i].op = "POST /broadcast"
  /\ store' = IF lost THEN TicketsResolved(<<net[i].id>>) ELSE store
  /\ Notify("Broadcast failed", "error")
  /\ net' = RemoveAt(net, i)
  /\ UNCHANGED <<tickets, confirmDelete, filterVars, batchVars, confirmPopup,
                 selectedTicketIds, askVars, catalog>>
  /\ UNCHANGED notAdmin

\* -------------------------------------------------- delete
HandleDeleteClickDeletesAtOnce(ticketId, ticketQuery) ==
  /\ PageClickable
  /\ \E k \in 1..Len(escalatedTickets) :
       escalatedTickets[k].id = ticketId /\ escalatedTickets[k].query = ticketQuery
  /\ Len(net) < MaxInflight
  /\ net' = Append(net, Req("DELETE /tickets", ticketId, Null, Null))
  /\ UNCHANGED <<adminVars, serverVars>>
  /\ UNCHANGED notAdmin

\* handleDeleteClick: Reject on a card
HandleDeleteClick(ticketId, ticketQuery) ==
  /\ PageClickable
  /\ \E k \in 1..Len(escalatedTickets) :
       escalatedTickets[k].id = ticketId /\ escalatedTickets[k].query = ticketQuery
  /\ confirmDelete' = [ticketId |-> ticketId, ticketQuery |-> ticketQuery]
  /\ UNCHANGED <<tickets, filterVars, batchVars, notification, confirmPopup,
                 selectedTicketIds, askVars, net, serverVars>>
  /\ UNCHANGED notAdmin

\* Cancel, or a click on the overlay of the delete confirmation
DeleteCancel ==
  /\ confirmDelete # NoConfirmDelete
  /\ confirmDelete' = NoConfirmDelete
  /\ UNCHANGED <<tickets, filterVars, batchVars, notification, confirmPopup,
                 selectedTicketIds, askVars, net, serverVars>>
  /\ UNCHANGED notAdmin

\* deleteTicket up to its first await (Delete in the confirmation)
DeleteTicket ==
  /\ confirmDelete # NoConfirmDelete
  /\ Len(net) < MaxInflight
  /\ net' = Append(net, Req("DELETE /tickets", confirmDelete.ticketId, Null, Null))
  /\ UNCHANGED <<adminVars, serverVars>>
  /\ UNCHANGED notAdmin

\* deleteTicket after the DELETE answered: await fetchTickets()
DeleteDone(i) ==
  /\ net[i].op = "DELETE /tickets"
  /\ Listed(net[i].id)
  /\ store' = TicketDeleted(net[i].id)
  /\ net' = Append(RemoveAt(net, i), FetchRequest("deleteTicket", net[i].id))
  /\ UNCHANGED <<adminVars, catalog>>
  /\ UNCHANGED notAdmin

\* deleteTicket's catch
DeleteFailed(i, lost) ==
  /\ net[i].op = "DELETE /tickets"
  /\ lost => Listed(net[i].id)
  /\ store' = IF lost THEN TicketDeleted(net[i].id) ELSE store
  /\ Notify("Delete failed!", "error")
  /\ net' = RemoveAt(net, i)
  /\ UNCHANGED <<tickets, confirmDelete, filterVars, batchVars, confirmPopup,
                 selectedTicketIds, askVars, catalog>>
  /\ UNCHANGED notAdmin

AfterDeleteRefetchKeepsList(i, ok) ==
  /\ net[i].op = "GET /tickets"
  /\ net[i].ctx.then = "deleteTicket"
  /\ ok => net[i].stage = "ok"
  /\ Notify("Ticket deleted successfully", "success")
  /\ confirmDelete' = NoConfirmDelete
  /\ net' = RemoveAt(net, i)
  /\ UNCHANGED <<tickets, filterVars, batchVars, confirmPopup, selectedTicketIds,
                 askVars, serverVars>>
  /\ UNCHANGED notAdmin

\* deleteTicket after the awaited fetchTickets returned: fetchTickets stored
\* the answer (ok), or caught its own failure; either way deleteTicket goes on
AfterDeleteRefetch(i, ok) ==
  /\ net[i].op = "GET /tickets"
  /\ net[i].ctx.then = "deleteTicket"
  /\ ok => net[i].stage = "ok"
  /\ tickets' = IF ok THEN net[i].data ELSE tickets
  /\ Notify("Ticket deleted successfully", "success")
  /\ confirmDelete' = NoConfirmDelete
  /\ net' = RemoveAt(net, i)
  /\ UNCHANGED <<filterVars, batchVars, confirmPopup, selectedTicketIds, askVars,
                 serverVars>>
  /\ UNCHANGED notAdmin

\* -------------------------------------------------- filters and selection
SelectCategoryKeepsSelection(cat) ==
  /\ PageClickable
  /\ categoryFilter' = cat
  /\ subcategoryFilter' = "All"
  /\ UNCHANGED <<tickets, confirmDelete, batchVars, notification, confirmPopup,
                 selectedTicketIds, askVars, net, serverVars>>
  /\ UNCHANGED notAdmin

\* a category tab is clicked
SelectCategory(cat) ==
  /\ PageClickable
  /\ categoryFilter' = cat
  /\ subcategoryFilter' = "All"
  /\ selectedTicketIds' = <<>>
  /\ UNCHANGED <<tickets, confirmDelete, batchVars, notification, confirmPopup,
                 askVars, net, serverVars>>
  /\ UNCHANGED notAdmin

\* a subcategory pill is clicked (the row shows for a category with pills)
SelectSubcategory(sub) ==
  /\ PageClickable
  /\ categoryFilter # "All"
  /\ Len(activeSubcategories) > 1
  /\ Includes(activeSubcategories, sub)
  /\ subcategoryFilter' = sub
  /\ selectedTicketIds' = <<>>
  /\ UNCHANGED <<tickets, confirmDelete, categoryFilter, batchVars, notification,
                 confirmPopup, askVars, net, serverVars>>
  /\ UNCHANGED notAdmin

\* toggleTicketSelection
Toggled(prev, id) ==
  IF Includes(prev, id) THEN SelectSeq(prev, LAMBDA tid : tid # id) ELSE Append(prev, id)

\* the checkbox of a card, or of a line of the broadcast modal's list
ToggleTicketSelection(id) ==
  /\ \/ PageClickable
     \/ showBroadcastAll
  /\ Includes(IdsOf(escalatedTickets), id)
  /\ selectedTicketIds' = Toggled(selectedTicketIds, id)
  /\ UNCHANGED <<tickets, confirmDelete, filterVars, batchVars, notification,
                 confirmPopup, askVars, net, serverVars>>
  /\ UNCHANGED notAdmin

\* Select All / Deselect All
ToggleSelectAll ==
  /\ PageClickable
  /\ Len(escalatedTickets) > 0
  /\ selectedTicketIds' = IF Len(selectedTicketIds) = Len(escalatedTickets)
                          THEN <<>> ELSE IdsOf(escalatedTickets)
  /\ UNCHANGED <<tickets, confirmDelete, filterVars, batchVars, notification,
                 confirmPopup, askVars, net, serverVars>>
  /\ UNCHANGED notAdmin

\* -------------------------------------------------- broadcast all
OpenBroadcastModal ==
  /\ PageClickable
  /\ Len(escalatedTickets) > 0
  /\ selectedTicketIds' = IF Len(selectedTicketIds) = 0
                          THEN IdsOf(escalatedTickets) ELSE selectedTicketIds
  /\ broadcastAllText' = ""
  /\ isConfirmingBroadcastAll' = FALSE
  /\ showBroadcastAll' = TRUE
  /\ UNCHANGED <<tickets, confirmDelete, filterVars, notification, confirmPopup,
                 askVars, net, serverVars>>
  /\ UNCHANGED notAdmin

\* the textarea of the broadcast modal
SetBroadcastAllText(txt) ==
  /\ showBroadcastAll
  /\ broadcastAllText # txt
  /\ broadcastAllText' = txt
  /\ UNCHANGED <<tickets, confirmDelete, filterVars, showBroadcastAll,
                 isConfirmingBroadcastAll, notification, confirmPopup,
                 selectedTicketIds, askVars, net, serverVars>>
  /\ UNCHANGED notAdmin

\* a click on the overlay of the broadcast modal
BroadcastModalDismiss ==
  /\ showBroadcastAll
  /\ showBroadcastAll' = FALSE
  /\ UNCHANGED <<tickets, confirmDelete, filterVars, broadcastAllText,
                 isConfirmingBroadcastAll, notification, confirmPopup,
                 selectedTicketIds, askVars, net, serverVars>>
  /\ UNCHANGED notAdmin

\* Cancel in the broadcast modal
BroadcastModalCancel ==
  /\ showBroadcastAll
  /\ showBroadcastAll' = FALSE
  /\ broadcastAllText' = ""
  /\ UNCHANGED <<tickets, confirmDelete, filterVars, isConfirmingBroadcastAll,
                 notification, confirmPopup, selectedTicketIds, askVars, net,
                 serverVars>>
  /\ UNCHANGED notAdmin

\* Wait, Go Back
BroadcastGoBack ==
  /\ showBroadcastAll
  /\ isConfirmingBroadcastAll
  /\ isConfirmingBroadcastAll' = FALSE
  /\ UNCHANGED <<tickets, confirmDelete, filterVars, showBroadcastAll,
                 broadcastAllText, notification, confirmPopup, selectedTicketIds,
                 askVars, net, serverVars>>
  /\ UNCHANGED notAdmin

\* the request handleBroadcastAll sends
BroadcastAllRequest ==
  Req("POST /broadcast_all", Null,
      [final_answer |-> broadcastAllText, ticket_ids |-> selectedTicketIds], Null)

HandleBroadcastAllOneStep ==
  /\ showBroadcastAll
  /\ isConfirmingBroadcastAll
       \/ ~(Len(selectedTicketIds) = 0 \/ Trim(broadcastAllText) = "")
  /\ IF Len(selectedTicketIds) = 0
     THEN /\ Notify("Please select at least one ticket", "error")
          /\ UNCHANGED <<isConfirmingBroadcastAll, net>>
     ELSE IF Trim(broadcastAllText) = ""
     THEN /\ Notify("Please enter a solution", "error")
          /\ UNCHANGED <<isConfirmingBroadcastAll, net>>
     ELSE /\ Len(net) < MaxInflight
          /\ net' = Append(net, BroadcastAllRequest)
          /\ UNCHANGED <<notification, isConfirmingBroadcastAll>>
  /\ UNCHANGED <<tickets, confirmDelete, filterVars, showBroadcastAll,
                 broadcastAllText, confirmPopup, selectedTicketIds, askVars,
                 serverVars>>
  /\ UNCHANGED notAdmin

HandleBroadcastAllUnchecked ==
  /\ showBroadcastAll
  /\ isConfirmingBroadcastAll
       \/ ~(Len(selectedTicketIds) = 0 \/ Trim(broadcastAllText) = "")
  /\ IF ~isConfirmingBroadcastAll
     THEN /\ isConfirmingBroadcastAll' = TRUE
          /\ UNCHANGED <<notification, net>>
     ELSE /\ Len(net) < MaxInflight
          /\ net' = Append(net, BroadcastAllRequest)
          /\ UNCHANGED <<notification, isConfirmingBroadcastAll>>
  /\ UNCHANGED <<tickets, confirmDelete, filterVars, showBroadcastAll,
                 broadcastAllText, confirmPopup, selectedTicketIds, askVars,
                 serverVars>>
  /\ UNCHANGED notAdmin

\* handleBroadcastAll up to its await (Broadcast Solution, or Yes, Broadcast
\* Now; the first is disabled without a selection or a solution)
HandleBroadcastAll ==
  /\ showBroadcastAll
  /\ isConfirmingBroadcastAll
       \/ ~(Len(selectedTicketIds) = 0 \/ Trim(broadcastAllText) = "")
  /\ IF Len(selectedTicketIds) = 0
     THEN /\ Notify("Please select at least one ticket", "error")
          /\ UNCHANGED <<isConfirmingBroadcastAll, net>>
     ELSE IF Trim(broadcastAllText) = ""
     THEN /\ Notify("Please enter a solution", "error")
          /\ UNCHANGED <<isConfirmingBroadcastAll, net>>
     ELSE IF ~isConfirmingBroadcastAll
     THEN /\ isConfirmingBroadcastAll' = TRUE
          /\ UNCHANGED <<notification, net>>
     ELSE /\ Len(net) < MaxInflight
          /\ net' = Append(net, BroadcastAllRequest)
          /\ UNCHANGED <<notification, isConfirmingBroadcastAll>>
  /\ UNCHANGED <<tickets, confirmDelete, filterVars, showBroadcastAll,
                 broadcastAllText, confirmPopup, selectedTicketIds, askVars,
                 serverVars>>
  /\ UNCHANGED notAdmin

\* the success toast, with the tickets_resolved of the answer
ResolvedNotice(n) ==
  CASE n = 0 -> "Successfully resolved 0 ticket(s)!"
    [] n = 1 -> "Successfully resolved 1 ticket(s)!"
    [] OTHER -> "Successfully resolved 2 ticket(s)!"

\* handleBroadcastAll after POST /broadcast_all answered
BroadcastAllDone(i) ==
  /\ net[i].op = "POST /broadcast_all"
  /\ store' = TicketsResolved(net[i].body.ticket_ids)
  /\ Notify(ResolvedNotice(Len(SelectSeq(net[i].body.ticket_ids, Listed))), "success")
  /\ showBroadcastAll' = FALSE
  /\ broadcastAllText' = ""
  /\ isConfirmingBroadcastAll' = FALSE
  /\ selectedTicketIds' = <<>>
  /\ net' = Append(RemoveAt(net, i), FetchRequest("fetchTickets", Null))
  /\ UNCHANGED <<tickets, confirmDelete, filterVars, confirmPopup, askVars,
                 catalog>>
  /\ UNCHANGED notAdmin

BroadcastAllFailedClosesModal(i, lost) ==
  /\ net[i].op = "POST /broadcast_all"
  /\ store' = IF lost THEN TicketsResolved(net[i].body.ticket_ids) ELSE store
  /\ Notify("Failed to broadcast solution", "error")
  /\ showBroadcastAll' = FALSE
  /\ broadcastAllText' = ""
  /\ isConfirmingBroadcastAll' = FALSE
  /\ selectedTicketIds' = <<>>
  /\ net' = RemoveAt(net, i)
  /\ UNCHANGED <<tickets, confirmDelete, filterVars, confirmPopup, askVars, catalog>>
  /\ UNCHANGED notAdmin

\* handleBroadcastAll's catch

BroadcastAllFailed(i, lost) ==
  /\ net[i].op = "POST /broadcast_all"
  /\ store' = IF lost THEN TicketsResolved(net[i].body.ticket_ids) ELSE store
  /\ Notify("Failed to broadcast solution", "error")
  /\ net' = RemoveAt(net, i)
  /\ UNCHANGED <<tickets, confirmDelete, filterVars, batchVars, confirmPopup,
                 selectedTicketIds, askVars, catalog>>
  /\ UNCHANGED notAdmin

\* -------------------------------------------------- ask user
\* Ask User on a card
OpenAskModal(ticket) ==
  /\ PageClickable
  /\ Includes(escalatedTickets, ticket)
  /\ showAskModal' = ticket
  /\ askQuestionText' = SuggestedQuestion
  /\ UNCHANGED <<tickets, confirmDelete, filterVars, batchVars, notification,
                 confirmPopup, selectedTicketIds, net, serverVars>>
  /\ UNCHANGED notAdmin

SetAskQuestionText(txt) ==
  /\ showAskModal # NoAskTicket
  /\ askQuestionText # txt
  /\ askQuestionText' = txt
  /\ UNCHANGED <<tickets, confirmDelete, filterVars, batchVars, notification,
                 confirmPopup, selectedTicketIds, showAskModal, net, serverVars>>
  /\ UNCHANGED notAdmin

\* Cancel, or a click on the overlay of the ask modal
AskModalDismiss ==
  /\ showAskModal # NoAskTicket
  /\ showAskModal' = NoAskTicket
  /\ UNCHANGED <<tickets, confirmDelete, filterVars, batchVars, notification,
                 confirmPopup, selectedTicketIds, askQuestionText, net, serverVars>>
  /\ UNCHANGED notAdmin

HandleAskUserUnchecked ==
  /\ showAskModal # NoAskTicket
  /\ Len(net) < MaxInflight
  /\ Asks(showAskModal.id) < MaxAsks
  /\ net' = Append(net, Req("POST /tickets/ask", showAskModal.id,
                            [question |-> askQuestionText], Null))
  /\ UNCHANGED <<adminVars, serverVars>>
  /\ UNCHANGED notAdmin

\* handleAskUser up to its await (Send Question is disabled for a blank text)
HandleAskUser ==
  /\ showAskModal # NoAskTicket
  /\ Trim(askQuestionText) # ""
  /\ Len(net) < MaxInflight
  /\ Asks(showAskModal.id) < MaxAsks
  /\ net' = Append(net, Req("POST /tickets/ask", showAskModal.id,
                            [question |-> askQuestionText], Null))
  /\ UNCHANGED <<adminVars, serverVars>>
  /\ UNCHANGED notAdmin

AskDone(i) ==
  /\ net[i].op = "POST /tickets/ask"
  /\ store[net[i].id].status \in {"Pending", "Awaiting Info"}
  /\ store' = TicketAsked(net[i].id, net[i].body.question)
  /\ Notify("Question sent to user", "success")
  /\ showAskModal' = NoAskTicket
  /\ askQuestionText' = ""
  /\ net' = Append(RemoveAt(net, i), FetchRequest("fetchTickets", Null))
  /\ UNCHANGED <<tickets, confirmDelete, filterVars, batchVars, confirmPopup,
                 selectedTicketIds, catalog>>
  /\ UNCHANGED notAdmin

AskFailed(i, lost) ==
  /\ net[i].op = "POST /tickets/ask"
  /\ lost => store[net[i].id].status \in {"Pending", "Awaiting Info"}
  /\ store' = IF lost THEN TicketAsked(net[i].id, net[i].body.question) ELSE store
  /\ Notify("Failed to send question", "error")
  /\ net' = RemoveAt(net, i)
  /\ UNCHANGED <<tickets, confirmDelete, filterVars, batchVars, confirmPopup,
                 selectedTicketIds, askVars, catalog>>
  /\ UNCHANGED notAdmin

\* the 4 s timer of showNotification
NotificationTimeout ==
  /\ notification # NoNotification
  /\ notification' = NoNotification
  /\ UNCHANGED <<tickets, confirmDelete, filterVars, batchVars, confirmPopup,
                 selectedTicketIds, askVars, net, serverVars>>
  /\ UNCHANGED notAdmin

\* -------------------------------------------------- backend, ticket endpoints
\* (modelled from the interface description)
TicketOf(id) ==
  [id |-> id, status |-> store[id].status, category |-> catalog[id].category,
   subcategory |-> catalog[id].subcategory, group_id |-> catalog[id].group_id,
   query |-> store[id].query, history |-> store[id].history]

\* the body of GET /tickets
AllTickets ==
  LET ids == SelectSeq(TicketIds, Listed)
  IN  [k \in 1..Len(ids) |-> TicketOf(ids[k])]

ServeGetTickets(i) ==
  /\ net[i].op = "GET /tickets"
  /\ net[i].stage = "sent"
  /\ net' = [net EXCEPT ![i].stage = "ok", ![i].data = AllTickets]
  /\ UNCHANGED <<adminVars, serverVars>>
  /\ UNCHANGED notAdmin

\* the transcript of a chat of another session that escalated
OtherTranscript ==
  <<[role |-> "ai", content |-> Greeting],
    [role |-> "user", content |-> "printer offline"],
    [role |-> "ai", content |-> "try a reboot"]>>

\* a user of another session escalates: a new Pending ticket appears
OtherSessionCreatesTicket ==
  /\ FreeIds # {}
  /\ store' = TicketCreated("printer offline", OtherTranscript)
  /\ UNCHANGED <<adminVars, net, catalog>>
  /\ UNCHANGED notAdmin

\* the user of a Pending ticket is asked for more information from another
\* dashboard
OtherSessionAsks(id) ==
  /\ store[id].status = "Pending"
  /\ Asks(id) < MaxAsks
  /\ store' = TicketAsked(id, SuggestedQuestion)
  /\ UNCHANGED <<adminVars, net, catalog>>
  /\ UNCHANGED notAdmin

\* ------------------------------------------------------------------ DatabaseViewer
KbIds == <<"1", "2">>

NoEntry == [ID |-> Null, Category |-> Null, Question |-> Null, Resolution |-> Null]
EmptyForm == [Category |-> "", Question |-> "", Resolution |-> ""]

\* the entry the knowledge base starts with
FirstEntry ==
  [ID |-> "1", Category |-> "Network", Question |-> "vpn fails", Resolution |-> "reinstall"]

\* what the admin may type into the three fields of the form
FieldTexts(field) ==
  CASE field = "Category" -> {"", "Network"}
    [] field = "Question" -> {"", "wifi drops"}
    [] OTHER -> {"", "restart the router"}

InitViewer ==
  /\ data = <<>>
  /\ showModal = FALSE
  /\ editingEntry = NoEntry
  /\ formData = EmptyForm
  /\ kb = [id \in Range(KbIds) |-> IF id = "1" THEN FirstEntry ELSE NoEntry]
  /\ alertBox = Null
  /\ confirmBox = Null

\* the viewer is mounted and no dialog stops the page
ViewerMounted == viewMode = "admin" /\ showDatabase

ViewerRuns == ViewerMounted /\ PageRuns

AlertDismiss ==
  /\ alertBox # Null
  /\ alertBox' = Null
  /\ UNCHANGED <<viewerVars, kb, confirmBox, net>>
  /\ UNCHANGED notViewer

\* backend (modelled from the interface description)
KbListed(id) == kb[id] # NoEntry

AllEntries ==
  LET ids == SelectSeq(KbIds, KbListed)
  IN  [k \in 1..Len(ids) |-> kb[ids[k]]]

FreeKbIds == {id \in Range(KbIds) : kb[id] = NoEntry}
NextKbId == CHOOSE id \in FreeKbIds :
              \A o \in FreeKbIds :
                (CHOOSE a \in 1..Len(KbIds) : KbIds[a] = id) <= (CHOOSE b \in 1..Len(KbIds) : KbIds[b] = o)

EntryOf(id, payload) ==
  [ID |-> id, Category |-> payload.category, Question |-> payload.question,
   Resolution |-> payload.resolution]

\* the store after a POST, PUT or DELETE /knowledge-base request
KbApplied(r) ==
  CASE r.op = "POST /knowledge-base" -> [kb EXCEPT ![NextKbId] = EntryOf(NextKbId, r.body)]
    [] r.op = "PUT /knowledge-base" -> [kb EXCEPT ![r.id] = EntryOf(r.id, r.body)]
    [] OTHER -> [kb EXCEPT ![r.id] = NoEntry]

\* the backend accepts the request
KbAccepts(r) ==
  CASE r.op = "POST /knowledge-base" -> FreeKbIds # {}
    [] OTHER -> KbListed(r.id)

\* fetchData up to its await (on mount, on the 5 s interval, after a change)
FetchDataRequest == Req("GET /knowledge-base", Null, Null, Null)

PollData ==
  /\ dataIntervals > 0
  /\ PageRuns
  /\ Len(net) < MaxInflight
  /\ net' = Append(net, FetchDataRequest)
  /\ UNCHANGED <<viewerVars, kb, alertBox, confirmBox>>
  /\ UNCHANGED notViewer

ServeGetKb(i) ==
  /\ net[i].op = "GET /knowledge-base"
  /\ net[i].stage = "sent"
  /\ net' = [net EXCEPT ![i].stage = "ok", ![i].data = AllEntries]
  /\ UNCHANGED <<viewerVars, kb, alertBox, confirmBox>>
  /\ UNCHANGED notViewer

FetchDataDone(i) ==
  /\ ViewerRuns
  /\ net[i].op = "GET /knowledge-base"
  /\ net[i].stage = "ok"
  /\ data' = net[i].data
  /\ net' = RemoveAt(net, i)
  /\ UNCHANGED <<showModal, editingEntry, formData, kb, alertBox, confirmBox>>
  /\ UNCHANGED notViewer

\* fetchData's catch: console.error only
FetchDataFailed(i) ==
  /\ ViewerRuns
  /\ net[i].op = "GET /knowledge-base"
  /\ net' = RemoveAt(net, i)
  /\ UNCHANGED <<viewerVars, kb, alertBox, confirmBox>>
  /\ UNCHANGED notViewer

FormResetKeepsFields ==
  /\ editingEntry' = NoEntry
  /\ formData' = formData
  /\ showModal' = FALSE

FormResetKeepsEntry ==
  /\ formData' = EmptyForm
  /\ editingEntry' = editingEntry
  /\ showModal' = FALSE

\* resetForm (the X and Cancel of the form)
FormReset ==
  /\ formData' = EmptyForm
  /\ editingEntry' = NoEntry
  /\ showModal' = FALSE

ResetForm ==
  /\ ViewerRuns
  /\ showModal
  /\ FormReset
  /\ UNCHANGED <<data, kb, alertBox, confirmBox, net>>
  /\ UNCHANGED notViewer

\* Add Entry
OpenAddEntry ==
  /\ ViewerRuns
  /\ ~showModal
  /\ showModal' = TRUE
  /\ UNCHANGED <<data, editingEntry, formData, kb, alertBox, confirmBox, net>>
  /\ UNCHANGED notViewer

\* handleEdit: the pencil of a row
HandleEdit(entry) ==
  /\ ViewerRuns
  /\ ~showModal
  /\ Includes(data, entry)
  /\ editingEntry' = entry
  /\ formData' = [Category |-> entry.Category, Question |-> entry.Question,
                  Resolution |-> entry.Resolution]
  /\ showModal' = TRUE
  /\ UNCHANGED <<data, kb, alertBox, confirmBox, net>>
  /\ UNCHANGED notViewer

\* onChange of a field of the form
SetFormField(field, txt) ==
  /\ ViewerRuns
  /\ showModal
  /\ formData[field] # txt
  /\ formData' = [formData EXCEPT ![field] = txt]
  /\ UNCHANGED <<data, showModal, editingEntry, kb, alertBox, confirmBox, net>>
  /\ UNCHANGED notViewer

\* handleDelete up to window.confirm: the bin of a row
HandleDelete(id) ==
  /\ ViewerRuns
  /\ ~showModal
  /\ \E k \in 1..Len(data) : data[k].ID = id
  /\ confirmBox' = id
  /\ UNCHANGED <<viewerVars, kb, alertBox, net>>
  /\ UNCHANGED notViewer

\* handleDelete after window.confirm returned ok
HandleDeleteConfirmed(ok) ==
  /\ confirmBox # Null
  /\ alertBox = Null
  /\ IF ~ok
     THEN UNCHANGED net
     ELSE /\ Len(net) < MaxInflight
          /\ net' = Append(net, Req("DELETE /knowledge-base", confirmBox, Null, Null))
  /\ confirmBox' = Null
  /\ UNCHANGED <<viewerVars, kb, alertBox>>
  /\ UNCHANGED notViewer

KbDeleteDone(i) ==
  /\ ViewerRuns
  /\ net[i].op = "DELETE /knowledge-base"
  /\ KbAccepts(net[i])
  /\ kb' = KbApplied(net[i])
  /\ net' = Append(RemoveAt(net, i), FetchDataRequest)
  /\ UNCHANGED <<viewerVars, alertBox, confirmBox>>
  /\ UNCHANGED notViewer

\* handleDelete's catch
KbDeleteFailed(i, lost) ==
  /\ ViewerRuns
  /\ net[i].op = "DELETE /knowledge-base"
  /\ lost => KbAccepts(net[i])
  /\ kb' = IF lost THEN KbApplied(net[i]) ELSE kb
  /\ alertBox' = "Failed to delete entry"
  /\ net' = RemoveAt(net, i)
  /\ UNCHANGED <<viewerVars, confirmBox>>
  /\ UNCHANGED notViewer

\* every field of the form is marked required: the browser submits the form
\* only when none is empty
FormSubmittable == \A f \in DOMAIN formData : formData[f] # ""

\* Save on a form with an empty required field: the browser reports the field
\* and does not raise the submit event, so handleSave does not run
SubmitRejected ==
  /\ ViewerRuns
  /\ showModal
  /\ ~FormSubmittable
  /\ UNCHANGED <<viewerVars, kb, alertBox, confirmBox, net>>
  /\ UNCHANGED notViewer

\* the request handleSave sends
SaveRequest ==
  LET payload == [category |-> formData.Category, question |-> formData.Question,
                  resolution |-> formData.Resolution, issue |-> ""]
  IN  IF editingEntry # NoEntry
      THEN Req("PUT /knowledge-base", editingEntry.ID, payload, Null)
      ELSE Req("POST /knowledge-base", Null, payload, Null)

HandleSaveUnvalidated ==
  /\ ViewerRuns
  /\ showModal
  /\ Len(net) < MaxInflight
  /\ net' = Append(net, SaveRequest)
  /\ UNCHANGED <<viewerVars, kb, alertBox, confirmBox>>
  /\ UNCHANGED notViewer

\* handleSave up to its await
HandleSave ==
  /\ ViewerRuns
  /\ showModal
  /\ FormSubmittable
  /\ Len(net) < MaxInflight
  /\ net' = Append(net, SaveRequest)
  /\ UNCHANGED <<viewerVars, kb, alertBox, confirmBox>>
  /\ UNCHANGED notViewer

IsSave(r) == r.op \in {"PUT /knowledge-base", "POST /knowledge-base"}

\* handleSave after the PUT or POST answered: fetchData(), resetForm()
SaveDone(i) ==
  /\ ViewerRuns
  /\ IsSave(net[i])
  /\ KbAccepts(net[i])
  /\ kb' = KbApplied(net[i])
  /\ net' = Append(RemoveAt(net, i), FetchDataRequest)
  /\ FormReset
  /\ UNCHANGED <<data, alertBox, confirmBox>>
  /\ UNCHANGED notViewer

\* handleSave's catch
SaveFailed(i, lost) ==
  /\ ViewerRuns
  /\ IsSave(net[i])
  /\ lost => KbAccepts(net[i])
  /\ kb' = IF lost THEN KbApplied(net[i]) ELSE kb
  /\ alertBox' = "Failed to save"
  /\ net' = RemoveAt(net, i)
  /\ UNCHANGED <<viewerVars, confirmBox>>
  /\ UNCHANGED notViewer

ViewerStep ==
  \/ PollData
  \/ \E i \in 1..Len(net) : ServeGetKb(i)
  \/ \E i \in 1..Len(net) : FetchDataDone(i)
  \/ \E i \in 1..Len(net) : FetchDataFailed(i)
  \/ ResetForm
  \/ OpenAddEntry
  \/ \E k \in 1..Len(data) : HandleEdit(data[k])
  \/ \E f \in DOMAIN formData : \E txt \in FieldTexts(f) : SetFormField(f, txt)
  \/ \E k \in 1..Len(data) : HandleDelete(data[k].ID)
  \/ \E ok \in BOOLEAN : HandleDeleteConfirmed(ok)
  \/ \E i \in 1..Len(net) : KbDeleteDone(i)
  \/ \E i \in 1..Len(net), lost \in BOOLEAN : KbDeleteFailed(i, lost)
  \/ HandleSave
  \/ SubmitRejected
  \/ \E i \in 1..Len(net) : SaveDone(i)
  \/ \E i \in 1..Len(net), lost \in BOOLEAN : SaveFailed(i, lost)
  \/ AlertDismiss

\* ------------------------------------------------------------------ UserPortal
InitChat ==
  /\ input = ""
  /\ messages = <<[role |-> "ai", content |-> Greeting]>>
  /\ loading = FALSE
  /\ ticketCreated = Null
  /\ analysis = NoAnalysis
  /\ sends = 0

\* onChange of the chat input (disabled while loading)
SetInput(txt) ==
  /\ viewMode = "user"
  /\ ~loading
  /\ input # txt
  /\ input' = txt
  /\ UNCHANGED <<messages, loading, ticketCreated, net, serverVars, obsVars>>
  /\ UNCHANGED notPortal

\* createTicket, up to its POST: the query it sends for a transcript
LastUserContent(currentMessages) ==
  LET us == {i \in 1..Len(currentMessages) : currentMessages[i].role = "user"}
  IN  IF us = {} THEN "Support Request"
      ELSE currentMessages[CHOOSE i \in us : \A j \in us : j <= i].content

QueryTextIgnoresSummary(currentMessages, summary) ==
  LastUserContent(currentMessages)

QueryText(currentMessages, summary) ==
  IF Truthy(summary) THEN summary ELSE LastUserContent(currentMessages)

CreateTicketRequestLastExchange(currentMessages, summary) ==
  Req("POST /tickets", Null,
      [query |-> QueryText(currentMessages, summary),
       history |-> SubSeq(currentMessages, Len(currentMessages) - 1, Len(currentMessages)),
       force_create |-> TRUE],
      currentMessages)

CreateTicketRequest(currentMessages, summary) ==
  Req("POST /tickets", Null,
      [query |-> QueryText(currentMessages, summary),
       history |-> currentMessages, force_create |-> TRUE],
      currentMessages)

\* the history handleSend sends to the analysis: the roles renamed
AnalysisHistory(ms) ==
  [k \in 1..Len(ms) |->
     [role |-> IF ms[k].role = "ai" THEN "model" ELSE "user", content |-> ms[k].content]]

\* handleSend, from the submit to the await of POST /chat/analyze
HandleSendStart(newMessages, userMsg) ==
  /\ messages' = newMessages
  /\ input' = ""
  /\ loading' = TRUE
  /\ net' = Append(net, Req("POST /chat/analyze", Null,
                            [message |-> userMsg, history |-> AnalysisHistory(newMessages)],
                            newMessages))

HandleSend ==
  /\ viewMode = "user"
  /\ Trim(input) # ""
  /\ ~loading
  /\ sends < MaxSends
  /\ Len(net) < MaxInflight
  /\ LET userMsg == Trim(input)
         newMessages == Append(messages, [role |-> "user", content |-> userMsg])
     IN  HandleSendStart(newMessages, userMsg)
  /\ sends' = sends + 1
  /\ UNCHANGED <<ticketCreated, serverVars, analysis>>
  /\ UNCHANGED notPortal

\* a submit that handleSend ignores (blank input or a send in progress)
HandleSendIgnored ==
  /\ viewMode = "user"
  /\ Trim(input) = "" \/ loading
  /\ UNCHANGED <<chatVars, net, serverVars, obsVars>>
  /\ UNCHANGED notPortal

AfterAnalyzeEscalatesFirst(newMessages, res, rest) ==
  /\ messages' = newMessages
  /\ net' = Append(rest, CreateTicketRequest(newMessages, res.summary))
  /\ loading' = loading
  /\ analysis' = res

\* handleSend after the analysis answered: append the reply, then escalate
\* when the answer asks for it
AfterAnalyze(newMessages, res, rest) ==
  LET aiMsg == [role |-> "ai", content |-> res.response]
      updatedMessages == Append(newMessages, aiMsg)
  IN  /\ messages' = updatedMessages
      /\ IF res.escalation_required
         THEN /\ net' = Append(rest, CreateTicketRequest(updatedMessages, res.summary))
              /\ loading' = loading
         ELSE /\ net' = rest
              /\ loading' = FALSE
      /\ analysis' = res

AnalyzeDone(i, res) ==
  /\ net[i].op = "POST /chat/analyze"
  /\ AfterAnalyze(net[i].ctx, res, RemoveAt(net, i))
  /\ UNCHANGED <<input, ticketCreated, serverVars, sends>>
  /\ UNCHANGED notPortal

AnalyzeFailedReplacesTranscript(i) ==
  /\ net[i].op = "POST /chat/analyze"
  /\ messages' = <<[role |-> "ai", content |-> Trouble]>>
  /\ loading' = FALSE
  /\ net' = RemoveAt(net, i)
  /\ UNCHANGED <<input, ticketCreated, serverVars, obsVars>>
  /\ UNCHANGED notPortal

\* handleSend's catch: the analysis request failed
AnalyzeFailed(i) ==
  /\ net[i].op = "POST /chat/analyze"
  /\ messages' = Append(messages, [role |-> "ai", content |-> Trouble])
  /\ loading' = FALSE
  /\ net' = RemoveAt(net, i)
  /\ UNCHANGED <<input, ticketCreated, serverVars, obsVars>>
  /\ UNCHANGED notPortal

\* createTicket after its POST answered, then handleSend's finally
CreateTicketDone(i) ==
  /\ net[i].op = "POST /tickets"
  /\ FreeIds # {}
  /\ store' = TicketCreated(net[i].body.query, net[i].body.history)
  /\ ticketCreated' = NextId
  /\ messages' = Append(messages, [role |-> "ai", content |-> AutoTicketNotice(NextId)])
  /\ loading' = FALSE
  /\ net' = RemoveAt(net, i)
  /\ UNCHANGED <<input, catalog, obsVars>>
  /\ UNCHANGED notPortal

CreateTicketFailedStaysLoading(i, lost) ==
  /\ net[i].op = "POST /tickets"
  /\ lost => FreeIds # {}
  /\ store' = IF lost THEN TicketCreated(net[i].body.query, net[i].body.history) ELSE store
  /\ net' = RemoveAt(net, i)
  /\ UNCHANGED <<input, messages, loading, ticketCreated, catalog, obsVars>>
  /\ UNCHANGED notPortal

\* createTicket's catch (console.error only), then handleSend's finally
CreateTicketFailed(i, lost) ==
  /\ net[i].op = "POST /tickets"
  /\ lost => FreeIds # {}
  /\ store' = IF lost THEN TicketCreated(net[i].body.query, net[i].body.history) ELSE store
  /\ loading' = FALSE
  /\ net' = RemoveAt(net, i)
  /\ UNCHANGED <<input, messages, ticketCreated, catalog, obsVars>>
  /\ UNCHANGED notPortal

\* the controls the portal renders, and the handler each of them calls: the
\* Switch to Admin View button, the chat input and the send form
PortalControls ==
  [backButton |-> "onBack", chatInput |-> "setInput", sendForm |-> "handleSend"]

\* the controls that call handleEscalate
EscalateControls == {c \in DOMAIN PortalControls : PortalControls[c] = "handleEscalate"}

\* String.prototype.toUpperCase over the roles
ToUpperCase(role) == IF role = "ai" THEN "AI" ELSE "USER"

\* fullHistory: one 'ROLE: content' line per message, in transcript order
FullHistory(ms) ==
  [k \in 1..Len(ms) |-> <<ToUpperCase(ms[k].role), ": ", ms[k].content>>]

\* handleEscalate up to its await, by a click on a control that calls it
HandleEscalate ==
  /\ viewMode = "user"
  /\ EscalateControls # {}
  /\ Len(net) < MaxInflight
  /\ loading' = TRUE
  /\ net' = Append(net, Req("POST /tickets", Null,
                            [query |-> FullHistory(messages), force_create |-> TRUE],
                            messages))
  /\ UNCHANGED <<input, messages, ticketCreated, serverVars, obsVars>>
  /\ UNCHANGED notPortal

DefaultCatalog ==
  [id \in Ids |-> [category |-> "Network", subcategory |-> "VPN", group_id |-> id]]

InitChatSession ==
  /\ InitChat
  /\ InitApp
  /\ InitViewer
  /\ viewMode = "user"
  /\ showDatabase = FALSE
  /\ ticketIntervals = 0
  /\ dataIntervals = 0
  /\ net = <<>>
  /\ store = [id \in Ids |-> NoTicket]
  /\ catalog = DefaultCatalog

ChatStep ==
  \/ \E txt \in InputTexts : SetInput(txt)
  \/ HandleSend
  \/ HandleSendIgnored
  \/ \E i \in 1..Len(net), res \in AnalyzeResponses : AnalyzeDone(i, res)
  \/ \E i \in 1..Len(net) : AnalyzeFailed(i)
  \/ \E i \in 1..Len(net) : CreateTicketDone(i)
  \/ \E i \in 1..Len(net), lost \in BOOLEAN : CreateTicketFailed(i, lost)

NextChat == ChatStep

SpecChat == InitChatSession /\ [][NextChat]_vars

\* a request of the chat completes or fails: axios settles every promise, by
\* an answer, an error status or a network error
RequestSettles ==
  \E i \in 1..Len(net) :
    \/ \E res \in AnalyzeResponses : AnalyzeDone(i, res)
    \/ AnalyzeFailed(i)
    \/ CreateTicketDone(i)
    \/ \E lost \in BOOLEAN : CreateTicketFailed(i, lost)

\* the chat when no request stays unanswered for ever
SpecChatLive == SpecChat /\ WF_vars(RequestSettles)

\* ------------------------------------------------------------------ navigation
\* the state a UserPortal that mounts starts with; the state of one that
\* unmounts is discarded
PortalMounts ==
  /\ input' = ""
  /\ messages' = <<[role |-> "ai", content |-> Greeting]>>
  /\ loading' = FALSE
  /\ ticketCreated' = Null
  /\ analysis' = NoAnalysis
  /\ sends' = 0

\* the same for a DatabaseViewer
ViewerMounts ==
  /\ data' = <<>>
  /\ showModal' = FALSE
  /\ editingEntry' = NoEntry
  /\ formData' = EmptyForm

SwitchToUserKeepsInterval ==
  /\ PageClickable
  /\ viewMode' = "user"
  /\ PortalMounts
  /\ UNCHANGED <<showDatabase, ticketIntervals, dataIntervals, adminVars, kbVars,
                 serverVars, net>>

\* User View: setViewMode('user'); the cleanup of the polling effect clears
\* its interval, the effect itself does nothing in user view
SwitchToUser ==
  /\ PageClickable
  /\ viewMode' = "user"
  /\ ticketIntervals' = ticketIntervals - 1
  /\ PortalMounts
  /\ UNCHANGED <<showDatabase, dataIntervals, adminVars, kbVars, serverVars, net>>

\* Switch to Admin View: onBack; the polling effect runs again, fetching at
\* once and setting its interval
OnBack ==
  /\ viewMode = "user"
  /\ PageRuns
  /\ Len(net) < MaxInflight
  /\ viewMode' = "admin"
  /\ ticketIntervals' = ticketIntervals + 1
  /\ net' = Append(net, FetchRequest("fetchTickets", Null))
  /\ PortalMounts
  /\ UNCHANGED <<showDatabase, dataIntervals, adminVars, kbVars, serverVars>>

\* Database: the viewer mounts, its effect fetches at once and sets its interval
OpenDatabase ==
  /\ PageClickable
  /\ Len(net) < MaxInflight
  /\ showDatabase' = TRUE
  /\ dataIntervals' = dataIntervals + 1
  /\ net' = Append(net, FetchDataRequest)
  /\ ViewerMounts
  /\ UNCHANGED <<viewMode, ticketIntervals, kb, alertBox, confirmBox, portalVars,
                 adminVars, serverVars>>

\* the X of the viewer: onClose; the viewer unmounts, the cleanup of its
\* effect clears its interval
CloseDatabase ==
  /\ ViewerRuns
  /\ ~showModal
  /\ showDatabase' = FALSE
  /\ dataIntervals' = dataIntervals - 1
  /\ ViewerMounts
  /\ UNCHANGED <<viewMode, ticketIntervals, kb, alertBox, confirmBox, net,
                 portalVars, adminVars, serverVars>>

\* the answer (or failure) of a fetchData whose viewer has unmounted: setData
\* on an unmounted component does nothing
FetchDataUnmounted(i) ==
  /\ ~ViewerMounted
  /\ PageRuns
  /\ net[i].op = "GET /knowledge-base"
  /\ net' = RemoveAt(net, i)
  /\ UNCHANGED <<viewerVars, kb, alertBox, confirmBox>>
  /\ UNCHANGED notViewer

\* switching between the views
NavigationStep ==
  \/ SwitchToUser
  \/ OnBack
  \/ OpenDatabase
  \/ CloseDatabase

\* fetchData, on the polling interval of the viewer
FetchDataStep ==
  \/ PollData
  \/ \E i \in 1..Len(net) : ServeGetKb(i)
  \/ \E i \in 1..Len(net) : FetchDataDone(i)
  \/ \E i \in 1..Len(net) : FetchDataFailed(i)
  \/ \E i \in 1..Len(net) : FetchDataUnmounted(i)

\* ------------------------------------------------------------------ dashboard
\* what the classifier assigned: two Network tickets of different
\* subcategories, the second grouped under the first
QueueCatalog ==
  [id \in Ids |->
     IF id = "TKT-1001"
     THEN [category |-> "Network", subcategory |-> "VPN", group_id |-> "TKT-1001"]
     ELSE [category |-> "Network", subcategory |-> "Wi-Fi", group_id |-> "TKT-1001"]]

InitDashboard ==
  /\ InitChat
  /\ InitApp
  /\ InitViewer
  /\ viewMode = "admin"
  /\ showDatabase = FALSE
  /\ ticketIntervals = 1
  /\ dataIntervals = 0
  /\ net = <<>>
  /\ store = [id \in Ids |-> NoTicket]
  /\ catalog = QueueCatalog

\* fetchTickets, on the polling interval and after a change
FetchStep ==
  \/ PollTickets
  \/ RefreshClick
  \/ \E i \in 1..Len(net) : ServeGetTickets(i)
  \/ \E i \in 1..Len(net) : FetchTicketsDone(i)
  \/ \E i \in 1..Len(net) : FetchTicketsFailed(i)

\* Broadcast Reply on a card
BroadcastOneStep ==
  \/ \E id \in Ids, txt \in DraftTexts : ApproveResolution(id, txt)
  \/ ConfirmPopupConfirm
  \/ ConfirmPopupDismiss
  \/ \E i \in 1..Len(net) : BroadcastDone(i)
  \/ \E i \in 1..Len(net), lost \in BOOLEAN : BroadcastFailed(i, lost)

\* Reject on a card
DeleteStep ==
  \/ \E k \in 1..Len(tickets) : HandleDeleteClick(tickets[k].id, tickets[k].query)
  \/ DeleteCancel
  \/ DeleteTicket
  \/ \E i \in 1..Len(net) : DeleteDone(i)
  \/ \E i \in 1..Len(net), lost \in BOOLEAN : DeleteFailed(i, lost)
  \/ \E i \in 1..Len(net), ok \in BOOLEAN : AfterDeleteRefetch(i, ok)

\* the tabs, the pills and the checkboxes
SelectionStep ==
  \/ \E cat \in CategoryTabs : SelectCategory(cat)
  \/ \E k \in 1..Len(activeSubcategories) : SelectSubcategory(activeSubcategories[k])
  \/ \E id \in Ids : ToggleTicketSelection(id)
  \/ ToggleSelectAll

\* the broadcast modal
BroadcastAllStep ==
  \/ OpenBroadcastModal
  \/ \E txt \in SolutionTexts : SetBroadcastAllText(txt)
  \/ BroadcastModalDismiss
  \/ BroadcastModalCancel
  \/ BroadcastGoBack
  \/ HandleBroadcastAll
  \/ \E i \in 1..Len(net) : BroadcastAllDone(i)
  \/ \E i \in 1..Len(net), lost \in BOOLEAN : BroadcastAllFailed(i, lost)

\* Ask User on a card
AskStep ==
  \/ \E k \in 1..Len(tickets) : OpenAskModal(tickets[k])
  \/ \E txt \in QuestionTexts : SetAskQuestionText(txt)
  \/ AskModalDismiss
  \/ HandleAskUser
  \/ \E i \in 1..Len(net) : AskDone(i)
  \/ \E i \in 1..Len(net), lost \in BOOLEAN : AskFailed(i, lost)

\* the queue: polling, filters and selection, the batch broadcast and the
\* broadcast of one card
QueueStep ==
  \/ FetchStep
  \/ SelectionStep
  \/ BroadcastAllStep
  \/ BroadcastOneStep
  \/ NotificationTimeout
  \/ OtherSessionCreatesTicket
  \/ \E id \in Ids : OtherSessionAsks(id)

NextQueue == QueueStep

SpecQueue == InitDashboard /\ [][NextQueue]_vars

\* the batch broadcast alone: polling, filters and selection, and the
\* broadcast modal with its confirm step
BatchStep ==
  \/ FetchStep
  \/ SelectionStep
  \/ BroadcastAllStep
  \/ NotificationTimeout
  \/ OtherSessionCreatesTicket

NextBatch == BatchStep

SpecBatch == InitDashboard /\ [][NextBatch]_vars

\* a polling interval of App fires while earlier requests are still
\* unanswered: setInterval does not wait for them
PollTicketsMeanwhile ==
  /\ ticketIntervals > 0
  /\ PageRuns
  /\ Len(net) > 0
  /\ Len(net) <= MaxInflight
  /\ net' = Append(net, FetchRequest("fetchTickets", Null))
  /\ UNCHANGED <<adminVars, serverVars>>
  /\ UNCHANGED notAdmin

\* the broadcast of one card while the polling goes on, with fetches
\* overlapping the broadcast and each other
RaceStep ==
  \/ FetchStep
  \/ BroadcastOneStep
  \/ PollTicketsMeanwhile
  \/ OtherSessionCreatesTicket

NextRace == RaceStep

SpecRace == InitDashboard /\ [][NextRace]_vars

\* the dashboard over a similarity group that is already there: both tickets
\* Pending, the second grouped under the first
InitGrouped ==
  /\ InitChat
  /\ InitApp
  /\ InitViewer
  /\ viewMode = "admin"
  /\ showDatabase = FALSE
  /\ ticketIntervals = 1
  /\ dataIntervals = 0
  /\ net = <<>>
  /\ store = [id \in Ids |-> [status |-> "Pending", query |-> "printer offline",
                              history |-> StoredHistory(OtherTranscript)]]
  /\ catalog = QueueCatalog

\* polling, Broadcast Reply and Reject on the cards of the group
GroupStep ==
  \/ FetchStep
  \/ BroadcastOneStep
  \/ DeleteStep
  \/ NotificationTimeout

NextGroup == GroupStep

SpecGroup == InitGrouped /\ [][NextGroup]_vars

\* ------------------------------------------------------------------ admin
\* the admin view with the knowledge-base viewer closed or open; switching
\* between the two is left out
InitAdmin ==
  /\ InitChat
  /\ InitApp
  /\ InitViewer
  /\ viewMode = "admin"
  /\ showDatabase \in BOOLEAN
  /\ ticketIntervals = 1
  /\ dataIntervals = (IF showDatabase THEN 1 ELSE 0)
  /\ net = <<>>
  /\ store = [id \in Ids |-> NoTicket]
  /\ catalog = DefaultCatalog

CardStep ==
  \/ FetchStep
  \/ BroadcastOneStep
  \/ DeleteStep
  \/ AskStep
  \/ NotificationTimeout
  \/ OtherSessionCreatesTicket

NextAdmin ==
  \/ CardStep
  \/ ViewerStep

SpecAdmin == InitAdmin /\ [][NextAdmin]_vars

\* ------------------------------------------------------------------ filters
\* what the classifier may have assigned to the two tickets: one category with
\* two subcategories in one group, one subcategory twice, two categories, and
\* a ticket without a subcategory
FilterCatalogs ==
  {QueueCatalog,
   [id \in Ids |-> [category |-> "Network", subcategory |-> "VPN", group_id |-> "TKT-1001"]],
   [id \in Ids |->
      IF id = "TKT-1001"
      THEN [category |-> "Network", subcategory |-> "VPN", group_id |-> "TKT-1001"]
      ELSE [category |-> "Hardware", subcategory |-> "Printer", group_id |-> "TKT-1002"]],
   [id \in Ids |->
      IF id = "TKT-1001"
      THEN [category |-> "Network", subcategory |-> "", group_id |-> "TKT-1001"]
      ELSE [category |-> "Network", subcategory |-> "VPN", group_id |-> "TKT-1002"]]}

InitFilter ==
  /\ InitChat
  /\ InitApp
  /\ InitViewer
  /\ viewMode = "admin"
  /\ showDatabase = FALSE
  /\ ticketIntervals = 1
  /\ dataIntervals = 0
  /\ net = <<>>
  /\ store = [id \in Ids |-> NoTicket]
  /\ catalog \in FilterCatalogs

\* a ticket is resolved from another dashboard
OtherSessionResolves(id) ==
  /\ IsOpenStatus(store[id].status)
  /\ store' = TicketsResolved(<<id>>)
  /\ UNCHANGED <<adminVars, net, catalog>>
  /\ UNCHANGED notAdmin

\* the tabs, the pills and the checkboxes over a list that polling refreshes
\* while users and other operators work on the tickets
FilterStep ==
  \/ FetchStep
  \/ SelectionStep
  \/ OtherSessionCreatesTicket
  \/ \E id \in Ids : OtherSessionAsks(id)
  \/ \E id \in Ids : OtherSessionResolves(id)

NextFilter == FilterStep

SpecFilter == InitFilter /\ [][NextFilter]_vars

\* ------------------------------------------------------------------ polling
\* the two polling loops while the operator moves between the admin view, the
\* user view and the knowledge-base viewer
PollingStep ==
  \/ NavigationStep
  \/ FetchStep
  \/ FetchDataStep
  \/ OtherSessionCreatesTicket

NextPolling == PollingStep

SpecPolling == InitDashboard /\ [][NextPolling]_vars

\* ================================================================== claims
\* ------------------------------------------------------------------ User Portal
\* a POST /tickets issued by createTicket (handleSend's automatic escalation):
\* the one that carries the transcript as history
IsAutoTicketPost(r) == r.op = "POST /tickets" /\ "history" \in DOMAIN r.body

AutoPosts(n) == {i \in 1..Len(n) : IsAutoTicketPost(n[i])}

\* the content of the most recent user message of a transcript is c
IsLastUserMessage(ms, c) ==
  \E k \in 1..Len(ms) :
    /\ ms[k].role = "user"
    /\ ms[k].content = c
    /\ \A j \in (k + 1)..Len(ms) : ms[j].role # "user"

SummaryPresent == analysis.summary # Null /\ analysis.summary # ""

\* C1: once a ticket has been created for the chat session (ticketCreated is
\* set), no later handleSend issues another automatic POST /tickets, whatever
\* the analysis answers.
C1_NoSecondAutoTicket ==
  [][ticketCreated # Null => Cardinality(AutoPosts(net')) <= Cardinality(AutoPosts(net))]_vars

\* C3 (amended): the automatic ticket's query is the analysis summary when one
\* is present, and the content of the most recent user message otherwise.
C3_QueryIsSummaryElseLastUserMessage ==
  \A i \in AutoPosts(net) :
    IF SummaryPresent
    THEN net[i].body.query = analysis.summary
    ELSE IsLastUserMessage(messages, net[i].body.query)

\* C3 reached: an escalation whose summary differs from what the user wrote
C3_Witness ==
  \E i \in AutoPosts(net) :
    /\ analysis.summary = "VPN connectivity failure"
    /\ net[i].body.query = "VPN connectivity failure"
    /\ IsLastUserMessage(messages, "vpn down")

\* C3 as stated: in addition, with a summary present the query is never the
\* literal user message.
C3_QueryNeverLiteralMessage ==
  /\ C3_QueryIsSummaryElseLastUserMessage
  /\ \A i \in AutoPosts(net) :
       SummaryPresent => ~IsLastUserMessage(messages, net[i].body.query)

\* C6: while POST /chat/analyze is outstanding the user message is already the
\* last entry of the transcript and no ticket request exists; a ticket request
\* exists only once the reply has been appended after that user message, and
\* only for an answer with escalation_required = true.
C6_SendOrder ==
  \A i \in 1..Len(net) :
    /\ net[i].op = "POST /chat/analyze" =>
         /\ loading
         /\ net[i].body.history = AnalysisHistory(messages)
         /\ messages[Len(messages)] = [role |-> "user", content |-> net[i].body.message]
         /\ AutoPosts(net) = {}
    /\ IsAutoTicketPost(net[i]) =>
         /\ loading
         /\ analysis.escalation_required
         /\ Len(messages) >= 3
         /\ messages[Len(messages)] = [role |-> "ai", content |-> analysis.response]
         /\ messages[Len(messages) - 1].role = "user"
         /\ net[i].body.history = messages

\* C6 reached: the second message of a session escalated after its reply
C6_Witness ==
  \E i \in AutoPosts(net) :
    /\ net[i].stage = "sent"
    /\ sends = 2
    /\ Len(messages) >= 5

\* ------------------------------------------------------------------ requests
\* how many requests of an operation are outstanding
Count(op, n) == Cardinality({k \in 1..Len(n) : n[k].op = op})

\* this step puts a request of the operation on the wire (a handler appends
\* the request it sends to the end of net)
Issues(op) == Count(op, net') > Count(op, net)

\* the request this step has put on the wire
Issued == net'[Len(net')]

\* this step sends nothing
NothingIssued ==
  /\ Len(net') <= Len(net)
  /\ \A k \in 1..Len(net') : ~Issues(net'[k].op)

\* ------------------------------------------------------------------ queue
IsOpen(t) == t.status \in {"Pending", "Awaiting Info"}

\* C2: a ticket of the list is in the displayed queue exactly when it is
\* Pending or Awaiting Info, the category filter is All or its category, and
\* the subcategory filter is All or its subcategory; the queue shows nothing
\* else, and under a category filter other than All only that category.
C2_QueueIsTheFilteredOpenTickets ==
  /\ \A k \in 1..Len(tickets) :
       Includes(escalatedTickets, tickets[k]) <=>
         /\ IsOpen(tickets[k])
         /\ categoryFilter = "All" \/ tickets[k].category = categoryFilter
         /\ subcategoryFilter = "All" \/ tickets[k].subcategory = subcategoryFilter
  /\ \A k \in 1..Len(escalatedTickets) :
       /\ Includes(tickets, escalatedTickets[k])
       /\ categoryFilter # "All" => escalatedTickets[k].category = categoryFilter

\* C2 reached: under a subcategory pill the queue leaves out an open ticket of
\* another subcategory, and a resolved one
C2_Witness ==
  /\ categoryFilter = "Network"
  /\ subcategoryFilter = "Wi-Fi"
  /\ Len(tickets) = 2
  /\ tickets[1].status = "Awaiting Info"
  /\ tickets[2].status = "Pending"
  /\ IdsOf(escalatedTickets) = <<"TKT-1002">>

\* C4: POST /broadcast_all goes out only from the broadcast modal while its
\* confirm step is showing, as one request carrying the solution text and
\* the whole current selection; the step that brings up the confirm step
\* sends nothing.
C4_BroadcastAllInTwoSteps ==
  [][ /\ Issues("POST /broadcast_all") =>
          /\ showBroadcastAll
          /\ isConfirmingBroadcastAll
          /\ Len(net') = Len(net) + 1
          /\ Count("POST /broadcast_all", net') = Count("POST /broadcast_all", net) + 1
          /\ Len(selectedTicketIds) > 0
          /\ Issued.body = [final_answer |-> broadcastAllText,
                            ticket_ids |-> selectedTicketIds]
      /\ (~isConfirmingBroadcastAll /\ isConfirmingBroadcastAll') =>
          /\ showBroadcastAll
          /\ NothingIssued]_vars

\* C4 reached: a confirmed batch broadcast of two selected tickets is on the wire
C4_Witness ==
  \E k \in 1..Len(net) :
    /\ net[k].op = "POST /broadcast_all"
    /\ net[k].stage = "sent"
    /\ Len(net[k].body.ticket_ids) = 2
    /\ isConfirmingBroadcastAll
    /\ showBroadcastAll

\* C5: every id a POST /broadcast_all carries is, when the request is issued,
\* the id of a ticket of the displayed queue.
C5_BroadcastAllOnlyVisibleTickets ==
  [][Issues("POST /broadcast_all") =>
       \A k \in 1..Len(Issued.body.ticket_ids) :
         Includes(IdsOf(escalatedTickets), Issued.body.ticket_ids[k])]_vars

\* ------------------------------------------------------------------ deleting
\* C7: DELETE /tickets/{id} goes out only by Delete in the confirmation that
\* is pending for that id, DELETE /knowledge-base/{id} only on a window.confirm
\* for that id answered yes; cancelling or declining sends nothing and leaves
\* the tickets and the entries shown as they are.
C7_DeleteOnlyConfirmed ==
  [][ /\ Issues("DELETE /tickets") =>
          /\ confirmDelete # NoConfirmDelete
          /\ Issued.id = confirmDelete.ticketId
          /\ Len(net') = Len(net) + 1
      /\ Issues("DELETE /knowledge-base") =>
          /\ confirmBox # Null
          /\ Issued.id = confirmBox
          /\ confirmBox' = Null
          /\ Len(net') = Len(net) + 1
      /\ (confirmDelete # NoConfirmDelete /\ ~Issues("DELETE /tickets")) =>
          ~Issues("DELETE /knowledge-base")
      /\ DeleteCancel => NothingIssued /\ tickets' = tickets
      /\ (confirmBox # Null /\ confirmBox' = Null /\ ~Issues("DELETE /knowledge-base")) =>
          NothingIssued /\ data' = data]_vars

\* C7 reached: the DELETE of the ticket whose confirmation is pending is on
\* the wire
C7_Witness ==
  \E k \in 1..Len(net) :
    /\ net[k].op = "DELETE /tickets"
    /\ net[k].id = confirmDelete.ticketId
    /\ Includes(IdsOf(tickets), net[k].id)

\* deleteTicket's awaited refetch returns for request i
RefetchReturns(i) == \E ok \in BOOLEAN : AfterDeleteRefetch(i, ok)

\* a request of a deleteTicket that is under way
OfDeleteTicket(r) ==
  \/ r.op = "DELETE /tickets"
  \/ r.op = "GET /tickets" /\ r.ctx.then = "deleteTicket"

\* C8 (amended): when the refetch deleteTicket awaits after a successful
\* DELETE is answered, the list taken from that answer lacks the deleted
\* ticket; the confirmation is closed by that refetch returning, answered or
\* failed, or by the operator's Cancel; a failed DELETE leaves the
\* confirmation and the list as they are.
C8_DeleteThenRefetch ==
  [][\A i \in 1..Len(net) :
       /\ AfterDeleteRefetch(i, TRUE) =>
            ~Includes(IdsOf(tickets'), net[i].ctx.ticketId)
       /\ (confirmDelete # NoConfirmDelete /\ confirmDelete' = NoConfirmDelete) =>
            DeleteCancel \/ \E j \in 1..Len(net) : RefetchReturns(j)
       /\ \A lost \in BOOLEAN :
            DeleteFailed(i, lost) => confirmDelete' = confirmDelete /\ tickets' = tickets]_vars

\* C8 reached: a ticket of the list was deleted, the refetch took it from the
\* list and the confirmation closed
C8_Witness ==
  /\ confirmDelete = NoConfirmDelete
  /\ notification.message = "Ticket deleted successfully"
  /\ store["TKT-1001"].status = "Deleted"
  /\ IdsOf(tickets) = <<"TKT-1002">>
  /\ net = <<>>

\* C8 as stated: whenever the refetch has returned the list lacks the
\* deleted ticket, and a confirmation whose DELETE was sent is closed only
\* by that refetch.
C8_ListLacksTicketOnceRefetchEnds ==
  [][\A i \in 1..Len(net) :
       /\ RefetchReturns(i) =>
            ~Includes(IdsOf(tickets'), net[i].ctx.ticketId)
       /\ (/\ confirmDelete # NoConfirmDelete
           /\ confirmDelete' = NoConfirmDelete
           /\ OfDeleteTicket(net[i])) =>
            RefetchReturns(i)
       /\ \A lost \in BOOLEAN :
            DeleteFailed(i, lost) => confirmDelete' = confirmDelete /\ tickets' = tickets]_vars

\* ------------------------------------------------------------------ broadcast one
\* C9: POST /broadcast goes out only by Confirm in the popup that Broadcast
\* Reply opened for that ticket with a non-empty draft, and carries that
\* ticket and draft; with an empty draft Broadcast Reply shows the error
\* notification, opens no popup and sends nothing; opening or dismissing the
\* popup sends nothing.
C9_BroadcastOnlyConfirmed ==
  /\ [](confirmPopup # NoConfirmPopup => confirmPopup.finalAnswer # "")
  /\ [][ /\ Issues("POST /broadcast") =>
             /\ confirmPopup # NoConfirmPopup
             /\ Len(net') = Len(net) + 1
             /\ Issued.id = confirmPopup.ticketId
             /\ Issued.body = [ticket_id |-> confirmPopup.ticketId,
                               final_answer |-> confirmPopup.finalAnswer]
         /\ \A id \in Ids :
             ApproveResolution(id, "") =>
               /\ notification' = [message |-> "Please enter a solution", type |-> "error"]
               /\ confirmPopup' = confirmPopup
               /\ NothingIssued
         /\ confirmPopup' # confirmPopup => NothingIssued \/ Issues("GET /tickets")
         /\ ConfirmPopupDismiss => NothingIssued]_vars

\* C9 reached: the confirmed broadcast of a ticket's draft is on the wire
C9_Witness ==
  \E k \in 1..Len(net) :
    /\ net[k].op = "POST /broadcast"
    /\ confirmPopup.ticketId = net[k].id
    /\ net[k].body.final_answer = "restart the router"

\* ------------------------------------------------------------------ failures
\* request i fails in this step
RequestFails(i) ==
  \/ AnalyzeFailed(i)
  \/ FetchTicketsFailed(i)
  \/ AfterDeleteRefetch(i, FALSE)
  \/ FetchDataFailed(i)
  \/ \E lost \in BOOLEAN :
       \/ CreateTicketFailed(i, lost)
       \/ BroadcastFailed(i, lost)
       \/ BroadcastAllFailed(i, lost)
       \/ AskFailed(i, lost)
       \/ DeleteFailed(i, lost)
       \/ KbDeleteFailed(i, lost)
       \/ SaveFailed(i, lost)

\* this step tells the user of a failure: an error notification, an alert,
\* or the chat's own trouble message
Surfaced ==
  \/ notification'.type = "error"
  \/ alertBox = Null /\ alertBox' # Null
  \/ /\ Len(messages') = Len(messages) + 1
     /\ messages'[Len(messages')] = [role |-> "ai", content |-> Trouble]

\* C10: the step in which a request fails tells the user of it, and sends
\* nothing.
C10_FailuresSurfacedNotRetried ==
  [][\A i \in 1..Len(net) : RequestFails(i) => Surfaced /\ NothingIssued]_vars

\* ------------------------------------------------------------------ grouping
\* the tickets of the list that are Pending and share the card's group_id
PendingOfGroup(card) ==
  {j \in 1..Len(tickets) :
     tickets[j].status = "Pending" /\ tickets[j].group_id = card.group_id}

\* C11: for every card of the queue the group computed is the Pending tickets
\* sharing its group_id, and its count of other tickets is the number of
\* tickets of that group other than the card's own, so never negative.
C11_OtherCountIsGroupSizeLessOne ==
  \A k \in 1..Len(escalatedTickets) :
    LET card == escalatedTickets[k]
    IN  /\ Range(groupedTickets(card)) = {tickets[j] : j \in PendingOfGroup(card)}
        /\ Len(groupedTickets(card)) = Cardinality(PendingOfGroup(card))
        /\ otherCount(card) =
             Cardinality({j \in PendingOfGroup(card) : tickets[j].id # card.id})
        /\ otherCount(card) >= 0

\* ------------------------------------------------------------------ ask user
\* C12: POST /tickets/{id}/ask goes out only from the open Ask modal, to the
\* ticket that modal was opened for, with the question typed, which is not
\* blank; once it succeeds that ticket is Awaiting Info, so still in the
\* queue, the question is the last entry of its history, and no other ticket
\* has changed; with a blank question nothing is sent.
C12_AskReachesTheOpenTicket ==
  [][ /\ Issues("POST /tickets/ask") =>
          /\ showAskModal # NoAskTicket
          /\ Len(net') = Len(net) + 1
          /\ Issued.id = showAskModal.id
          /\ Issued.body = [question |-> askQuestionText]
          /\ Trim(askQuestionText) # ""
      /\ \A i \in 1..Len(net) :
           AskDone(i) =>
             LET id == net[i].id
                 was == store[id].history
                 now == store'[id].history
             IN  /\ store'[id].status = "Awaiting Info"
                 /\ IsOpenStatus(store'[id].status)
                 /\ Len(now) = Len(was) + 1
                 /\ SubSeq(now, 1, Len(was)) = was
                 /\ now[Len(now)].message = net[i].body.question
                 /\ \A o \in Ids \ {id} : store'[o] = store[o]
      /\ Trim(askQuestionText) = "" => ~Issues("POST /tickets/ask")]_vars

\* C12 reached: the second question to a ticket was sent and recorded
C12_Witness ==
  \E id \in Ids :
    /\ store[id].status = "Awaiting Info"
    /\ Asks(id) = 2
    /\ store[id].history[Len(store[id].history)].message = SuggestedQuestion
    /\ notification.message = "Question sent to user"
    /\ showAskModal = NoAskTicket

\* ------------------------------------------------------------------ fetching
\* fetchTickets receives the answer of request i in this step
TakesAnswer(i) == FetchTicketsDone(i) \/ AfterDeleteRefetch(i, TRUE)

\* fetchTickets' request i fails in this step
FetchFails(i) == FetchTicketsFailed(i) \/ AfterDeleteRefetch(i, FALSE)

\* C13: the list of the dashboard is empty at first and then always the body
\* of the GET /tickets answer received last: receiving an answer makes that
\* body the list, nothing else changes the list, and a failed fetch leaves
\* it as it was.
C13_ListIsTheLastAnswer ==
  /\ tickets = <<>>
  /\ [][ /\ \A i \in 1..Len(net) : TakesAnswer(i) => tickets' = net[i].data
         /\ tickets' # tickets => \E i \in 1..Len(net) : TakesAnswer(i)
         /\ \A i \in 1..Len(net) : FetchFails(i) => tickets' = tickets]_vars

\* C13 reached: a list of two tickets was replaced by a later answer in which
\* the first of them is Resolved
C13_Witness ==
  /\ Len(tickets) = 2
  /\ tickets = AllTickets
  /\ tickets[1].status = "Resolved"
  /\ tickets[2].status = "Pending"
  /\ net = <<>>

\* ------------------------------------------------------------------ polling
\* C14: one ticket polling interval runs while App is in admin view and none
\* in user view, one knowledge-base interval runs while the viewer is mounted
\* and none otherwise, so never two for one list; a polling GET is issued only
\* in the view of its loop, nothing fetches tickets while the user view stays,
\* nothing fetches the knowledge base while the viewer stays closed, and
\* entering the admin view fetches tickets at once.
C14_PollingFollowsTheView ==
  /\ [](/\ ticketIntervals = (IF viewMode = "admin" THEN 1 ELSE 0)
        /\ dataIntervals = (IF ViewerMounted THEN 1 ELSE 0))
  /\ [][ /\ PollTickets => viewMode = "admin"
         /\ PollData => ViewerMounted
         /\ (viewMode = "user" /\ viewMode' = "user") => ~Issues("GET /tickets")
         /\ (~ViewerMounted /\ ~ViewerMounted') => ~Issues("GET /knowledge-base")
         /\ (viewMode = "user" /\ viewMode' = "admin") =>
              /\ Issues("GET /tickets")
              /\ ticketIntervals' = 1
         /\ (~ViewerMounted /\ ViewerMounted') =>
              /\ Issues("GET /knowledge-base")
              /\ dataIntervals' = 1]_vars

\* C14 reached: in user view, after the admin view had fetched a ticket, no
\* interval runs and the last answer of the cancelled polling is dropped
\* nowhere: it is still on its way
C14_Witness ==
  /\ viewMode = "user"
  /\ ticketIntervals = 0
  /\ dataIntervals = 0
  /\ Len(tickets) = 1
  /\ \E k \in 1..Len(net) : net[k].op = "GET /tickets" /\ net[k].stage = "ok"

\* ------------------------------------------------------------------ knowledge base
\* the payload of a save request carries the three fields of the form
CarriesForm(r) ==
  /\ r.body.category = formData.Category
  /\ r.body.question = formData.Question
  /\ r.body.resolution = formData.Resolution

\* C15: a save is a PUT to the id of the entry being edited when the form was
\* opened by Edit on that entry and a POST when it was opened by Add Entry,
\* never the other way round; either carries the form's Category, Question
\* and Resolution; when it succeeds the list is fetched again and the form is
\* reset and closed.
C15_PutForEditElsePost ==
  [][ /\ Issues("PUT /knowledge-base") =>
          /\ showModal
          /\ editingEntry # NoEntry
          /\ Issued.id = editingEntry.ID
          /\ CarriesForm(Issued)
      /\ Issues("POST /knowledge-base") =>
          /\ showModal
          /\ editingEntry = NoEntry
          /\ CarriesForm(Issued)
      /\ \A k \in 1..Len(data) : HandleEdit(data[k]) => editingEntry' = data[k]
      /\ OpenAddEntry => editingEntry' = NoEntry
      /\ editingEntry' # editingEntry =>
          \/ editingEntry' = NoEntry
          \/ \E k \in 1..Len(data) : HandleEdit(data[k])
      /\ \A i \in 1..Len(net) :
           SaveDone(i) =>
             /\ Issues("GET /knowledge-base")
             /\ ~showModal'
             /\ formData' = EmptyForm
             /\ editingEntry' = NoEntry]_vars

\* C15 reached: the PUT of an edited entry is on the wire, to the id of the
\* entry being edited and with the text typed into the form
C15_Witness ==
  \E k \in 1..Len(net) :
    /\ net[k].op = "PUT /knowledge-base"
    /\ net[k].id = "1"
    /\ editingEntry = FirstEntry
    /\ net[k].body.resolution = "restart the router"
    /\ net[k].body.question = "vpn fails"

\* a save request, or a stored entry, with all three fields filled in
PayloadFilled(body) == body.category # "" /\ body.question # "" /\ body.resolution # ""

EntryFilled(e) == e.Category # "" /\ e.Question # "" /\ e.Resolution # ""

\* C16: no POST or PUT to /knowledge-base is issued with an empty Category,
\* Question or Resolution: a submit of such a form sends nothing and leaves
\* the store alone, and no entry of the store ever has an empty field.
C16_EmptyFieldRejected ==
  /\ [](\A id \in Range(KbIds) : KbListed(id) => EntryFilled(kb[id]))
  /\ [][ /\ (Issues("POST /knowledge-base") \/ Issues("PUT /knowledge-base")) =>
             PayloadFilled(Issued.body)
         /\ (showModal /\ ~FormSubmittable) =>
             ~(Issues("POST /knowledge-base") \/ Issues("PUT /knowledge-base"))
         /\ SubmitRejected => NothingIssued /\ kb' = kb]_vars

\* C16 reached: a new entry with Category and Question typed and an empty
\* Resolution is in the form, nothing was sent and the store is as it was
C16_Witness ==
  /\ showModal
  /\ editingEntry = NoEntry
  /\ formData = [Category |-> "Network", Question |-> "wifi drops", Resolution |-> ""]
  /\ net = <<>>
  /\ kb["2"] = NoEntry
  /\ data = <<FirstEntry>>

\* ------------------------------------------------------------------ subcategories
\* the options after 'All'
OfferedSubcategories == Tail(activeSubcategories)

NoDuplicates(s) == \A a, b \in 1..Len(s) : s[a] = s[b] => a = b

\* the non-empty subcategories of some tickets
SubcategoriesOf(ts) == {ts[k].subcategory : k \in 1..Len(ts)} \ {""}

\* the ticket passes the category filter
MatchesCategoryFilter(t) == categoryFilter = "All" \/ t.category = categoryFilter

\* the ticket is open and of the category selected
IsOpenOfSelectedCategory(t) == IsOpen(t) /\ t.category = categoryFilter

\* C17 (amended): the subcategory options are 'All' followed, without
\* duplicates, by exactly the non-empty subcategories of the Pending and
\* Awaiting Info tickets whose category is the one selected; under the
\* category filter All that is 'All' alone, and pills are offered only for a
\* selected category with at least one such subcategory.
C17_OptionsAreSubcategoriesOfOpenTickets ==
  /\ activeSubcategories[1] = "All"
  /\ NoDuplicates(activeSubcategories)
  /\ Range(OfferedSubcategories) =
       SubcategoriesOf(SelectSeq(tickets, IsOpenOfSelectedCategory))
  /\ categoryFilter = "All" => OfferedSubcategories = <<>>

\* C17 reached: under Network the pills are All and VPN, while the list also
\* holds a resolved Network ticket of subcategory Wi-Fi
C17_Witness ==
  /\ categoryFilter = "Network"
  /\ activeSubcategories = <<"All", "VPN">>
  /\ Len(tickets) = 2
  /\ tickets[1].status = "Pending"
  /\ tickets[2].status = "Resolved"
  /\ tickets[2].subcategory = "Wi-Fi"

\* C17 as stated: the options are 'All' followed by exactly the non-empty
\* subcategories of the tickets that match the category filter.
C17_OptionsAreSubcategoriesOfMatchingTickets ==
  /\ activeSubcategories[1] = "All"
  /\ NoDuplicates(activeSubcategories)
  /\ Range(OfferedSubcategories) =
       SubcategoriesOf(SelectSeq(tickets, MatchesCategoryFilter))

\* ------------------------------------------------------------------ filter clicks
\* C18: the step of a category tab click leaves the selection empty and the
\* subcategory filter 'All', the step of a subcategory pill click leaves the
\* selection empty, and neither changes the ticket list; the filters change
\* in no other way.
C18_FilterClicksResetSelection ==
  [][ /\ \A cat \in CategoryTabs :
           SelectCategory(cat) =>
             /\ categoryFilter' = cat
             /\ subcategoryFilter' = "All"
             /\ selectedTicketIds' = <<>>
             /\ tickets' = tickets
      /\ \A k \in 1..Len(activeSubcategories) :
           SelectSubcategory(activeSubcategories[k]) =>
             /\ subcategoryFilter' = activeSubcategories[k]
             /\ selectedTicketIds' = <<>>
             /\ tickets' = tickets
      /\ categoryFilter' # categoryFilter =>
           /\ subcategoryFilter' = "All"
           /\ selectedTicketIds' = <<>>
           /\ tickets' = tickets
      /\ subcategoryFilter' # subcategoryFilter =>
           /\ selectedTicketIds' = <<>>
           /\ tickets' = tickets]_vars

\* C18 reached: with two tickets listed a tab and then a pill were clicked,
\* and nothing is selected
C18_Witness ==
  /\ categoryFilter = "Network"
  /\ subcategoryFilter = "VPN"
  /\ selectedTicketIds = <<>>
  /\ Len(tickets) = 2
  /\ Len(escalatedTickets) = 2

\* ------------------------------------------------------------------ manual escalation
\* C19: in every state of the chat the user can trigger handleEscalate,
\* whatever the analysis answered, and the request it sends has the whole
\* transcript, one line per message, as its query.
C19_ManualEscalationAlwaysPossible ==
  (viewMode = "user" /\ Len(net) < MaxInflight) => ENABLED HandleEscalate

\* ------------------------------------------------------------------ ticket history
\* C20: the history an automatic escalation sends is the whole transcript in
\* order: it starts with the greeting, ends with the user message and the
\* reply that asked for the escalation, and is all of messages; the ticket
\* created from it keeps one history entry per message, in that order.
C20_AutoTicketCarriesTranscript ==
  /\ [](\A i \in AutoPosts(net) :
          LET history == net[i].body.history
              n == Len(history)
          IN  /\ history = messages
              /\ n >= 3
              /\ history[1] = [role |-> "ai", content |-> Greeting]
              /\ history[n - 1].role = "user"
              /\ history[n] = [role |-> "ai", content |-> analysis.response])
  /\ [][\A i \in 1..Len(net) :
          CreateTicketDone(i) =>
            LET kept == store'[ticketCreated'].history
            IN  /\ Len(kept) = Len(messages)
                /\ \A k \in 1..Len(kept) :
                     /\ kept[k].role = messages[k].role
                     /\ kept[k].message = messages[k].content]_vars

\* C20 reached: the ticket of a session that escalated on its second message
\* holds the greeting, both messages and both replies
C20_Witness ==
  /\ ticketCreated # Null
  /\ \E id \in Ids :
       /\ ticketCreated = id
       /\ Len(store[id].history) = 5
       /\ store[id].history[1].message = Greeting
       /\ store[id].history[2].role = "user"
       /\ store[id].history[4].message = "still broken"
       /\ store[id].history[5].message = "try a reboot"

\* ---------------------------------------------------------------------------
\* C26: in every reachable state the active subcategory filter is one of the
\* options activeSubcategories offers, and a subcategory filter other than
\* 'All' is active only together with a category filter other than 'All'.
C26_ActiveFilterIsOffered ==
  /\ Includes(activeSubcategories, subcategoryFilter)
  /\ subcategoryFilter # "All" => categoryFilter # "All"

\* ---------------------------------------------------------------------------
\* C27: Select All / Deselect All acts on sets: when the selection is exactly
\* the set of the visible ticket ids the click clears it, otherwise the click
\* makes the selection exactly that set, also when the selection holds ids of
\* tickets a poll has taken out of the queue.
C27_SelectAllActsOnSets ==
  [][ToggleSelectAll =>
       selectedTicketIds' =
         IF Range(selectedTicketIds) = Range(IdsOf(escalatedTickets))
         THEN <<>> ELSE IdsOf(escalatedTickets)]_vars

\* ---------------------------------------------------------------------------
\* C28: the chat transcript is append-only: every step of the chat leaves the
\* messages already displayed where they are and at most adds messages after
\* them.
C28_TranscriptAppendOnly ==
  [][/\ Len(messages') >= Len(messages)
     /\ SubSeq(messages', 1, Len(messages)) = messages]_vars

\* a failed analysis, then a send whose analysis escalated: greeting, question,
\* trouble message, question, reply, ticket notice
C28_Witness ==
  /\ Len(messages) = 6
  /\ messages[3].content = Trouble
  /\ ticketCreated # Null
  /\ messages[6].content = AutoTicketNotice(ticketCreated)

\* ---------------------------------------------------------------------------
\* C29: when every request eventually completes or fails, a chat that is
\* loading eventually stops loading, whether the analysis succeeds or fails
\* or the automatic ticket creation fails; and while loading is true no step
\* sends an analysis request.
C29_SendReturnsToIdle ==
  /\ loading ~> ~loading
  /\ [][loading => ~Issues("POST /chat/analyze")]_vars

\* idle again after the analysis asked for a ticket and its creation failed
C29_Witness ==
  /\ ~loading
  /\ net = <<>>
  /\ sends > 0
  /\ analysis.escalation_required
  /\ ticketCreated = Null

\* ---------------------------------------------------------------------------
\* C30: whenever the entry form is closed no entry is being edited and the
\* form fields are empty; so Add Entry opens a form with empty fields and no
\* entry under edit, and the save of a form with no entry under edit issues a
\* POST and no PUT, after any sequence of edit, add, cancel and successful or
\* failed saves.
C30_ClosedFormIsClean ==
  /\ [](~showModal => editingEntry = NoEntry /\ formData = EmptyForm)
  /\ [][ /\ OpenAddEntry =>
             showModal' /\ editingEntry' = NoEntry /\ formData' = EmptyForm
         /\ (HandleSave /\ editingEntry = NoEntry) =>
             Issues("POST /knowledge-base") /\ ~Issues("PUT /knowledge-base")]_vars

\* the POST of an added entry is on the wire after an earlier edit of entry 1
\* was saved
C30_Witness ==
  /\ showModal
  /\ editingEntry = NoEntry
  /\ kb["1"] # NoEntry
  /\ kb["1"].Resolution = "restart the router"
  /\ \E k \in 1..Len(net) : net[k].op = "POST /knowledge-base"

C23_BatchBroadcastAllOrNothing ==
  [][\A i \in 1..Len(net) :
       /\ (\E lost \in BOOLEAN : BroadcastAllFailed(i, lost)) =>
            /\ UNCHANGED <<showBroadcastAll, selectedTicketIds, broadcastAllText,
                           isConfirmingBroadcastAll, tickets>>
            /\ notification'.type = "error"
            /\ NothingIssued
       /\ BroadcastAllDone(i) =>
            /\ ~showBroadcastAll'
            /\ broadcastAllText' = ""
            /\ selectedTicketIds' = <<>>
            /\ ~isConfirmingBroadcastAll'
            /\ notification'.type = "success"
            /\ Issues("GET /tickets")]_vars

\* the batch broadcast has failed: the modal still shows its confirm step
\* with the selection and the solution, under the error notification
C23_Witness ==
  /\ showBroadcastAll
  /\ isConfirmingBroadcastAll
  /\ notification = [message |-> "Failed to broadcast solution", type |-> "error"]
  /\ Len(selectedTicketIds) = 2
  /\ broadcastAllText = "restart the router"
  /\ net = <<>>

\* ---------------------------------------------------------------------------
\* C24: no POST /broadcast_all carries an empty ticket_ids list or a solution
\* that is empty or blank; a click on a broadcast button with an empty
\* selection or a blank solution shows an error notification and sends
\* nothing.
C24_NoEmptyBatchBroadcast ==
  [][ /\ Issues("POST /broadcast_all") =>
          /\ Len(Issued.body.ticket_ids) > 0
          /\ Trim(Issued.body.final_answer) # ""
      /\ (HandleBroadcastAll /\ (Len(selectedTicketIds) = 0 \/ Trim(broadcastAllText) = "")) =>
          /\ notification'.type = "error"
          /\ NothingIssued]_vars

\* the selection was emptied under the confirm step and Yes, Broadcast Now
\* answered with the error notification
C24_Witness ==
  /\ showBroadcastAll
  /\ isConfirmingBroadcastAll
  /\ selectedTicketIds = <<>>
  /\ broadcastAllText = "restart the router"
  /\ notification = [message |-> "Please select at least one ticket", type |-> "error"]
  /\ net = <<>>

\* ---------------------------------------------------------------------------
\* C25: with several GET /tickets in flight the list ends with the answer of
\* the latest one: once the list shows a ticket as Resolved, no later answer
\* puts the ticket back as it was before the broadcast.
C25_NoStaleOverwrite ==
  [][\A k \in 1..Len(tickets) :
       tickets[k].status = "Resolved" =>
         \A j \in 1..Len(tickets') :
           tickets'[j].id = tickets[k].id => tickets'[j].status = "Resolved"]_vars

\* ---------------------------------------------------------------------------
\* C21: the group_id of every ticket of the list is the id of a ticket of the
\* list, its anchor; and no step changes the group_id of a ticket that stays
\* in the list, so a group changes only by its members being created,
\* resolved, asked about or deleted.
C21_GroupsAnchoredAndStable ==
  /\ [](\A k \in 1..Len(tickets) :
          \E j \in 1..Len(tickets) : tickets[j].id = tickets[k].group_id)
  /\ [][\A k \in 1..Len(tickets), j \in 1..Len(tickets') :
          tickets'[j].id = tickets[k].id =>
            tickets'[j].group_id = tickets[k].group_id]_vars

====
